---- MODULE Spec2Model ----
(***************************************************************************)
(* A model of the incident-analysis pipeline of hinge-health/ir-analysis:  *)
(* the business-impact analyzer, the RCA quality analyzer, the technical   *)
(* analyzer, the narrative (RCA) analyzer and the per-incident loop of     *)
(* analyze_rca_content.  Texts are TLA+ strings; the Python string and     *)
(* regular-expression operations the analyzers use are written out as      *)
(* operators over them (str.lower, str.count, "in", re.search of the       *)
(* patterns of the source).                                                *)
(***************************************************************************)
EXTENDS Integers, Sequences, FiniteSets, TLC

VARIABLES
    content,            \* the cleaned document text handed to an analyzer
    summary,            \* the incident's Jira summary
    priority,           \* the incident urgency handed to the business analyzer
    fault,              \* the internal step of the analyzer that raises ("none": no step raises)
    hash_seed,          \* the interpreter's string-hash seed (fixed for a process)
    calls,              \* how many times the analyzer was called on this input
    business_impact,    \* result of analyze_business_impact
    quality_assessment, \* result of analyze_rca_quality
    technical_analysis, \* result of analyze_technical_aspects
    analysis_result,    \* result of analyze_rca_document
    previous,           \* the result of the previous call on the same input
    total_score,        \* argument of _calculate_grade
    grade,              \* result of _calculate_grade
    incidents,          \* analyze_rca_content: the incident list
    idx,                \* analyze_rca_content: index of the next incident of the loop
    analyzed_count,     \* analyze_rca_content: analyzed_count
    failed_count,       \* analyze_rca_content: failed_count
    trace,              \* analyze_rca_content: per incident, the analyzer calls made
    pc,                 \* main: the step the run is at ("idle": main is not running)
    exit_status,        \* main: the value it returned, -1 while it has not returned
    systemic,           \* main: the run-level step that failed ("none": no step failed)
    start_at,           \* get_incidents_since_date: start_at
    server              \* the issue tracker: the total it reports and the most issues of a page

vars == <<content, summary, priority, fault, hash_seed, calls, business_impact,
          quality_assessment, technical_analysis, analysis_result, previous,
          total_score, grade, incidents, idx, analyzed_count, failed_count, trace,
          pc, exit_status, systemic, start_at, server>>

None == "None"

(***************************************************************************)
(* Python string primitives                                                *)
(***************************************************************************)

\* F of the value v: the value is computed once, whatever the uses F makes of it
Let(v, F(_)) == F(v)

\* the position a when there is one, b otherwise
Or(a, b) == IF a # 0 THEN a ELSE b

\* the least element of a set of integers, 0 when it is empty
First(S) == IF S = {} THEN 0 ELSE CHOOSE i \in S : \A j \in S : i <= j

\* [F(x) for x in q]
Each(q, F(_)) == [k \in 1..Len(q) |-> F(q[k])] \o <<>>

\* for x in q: r = F(x); if r: break -- the first result that is not empty, <<>>
\* when every one is
FirstResult(q, F(_)) ==
    Let(Each(q, F), LAMBDA rs :
        Let(First({k \in 1..Len(rs) : rs[k] # <<>>}), LAMBDA k :
            IF k = 0 THEN <<>> ELSE rs[k]))

Min(a, b) == IF a < b THEN a ELSE b
Max(a, b) == IF a > b THEN a ELSE b

\* the character at position i (1-based) of s
Ch(s, i) == IF 1 <= i /\ i <= Len(s) THEN SubSeq(s, i, i) ELSE ""

Upper == <<"A","B","C","D","E","F","G","H","I","J","K","L","M",
           "N","O","P","Q","R","S","T","U","V","W","X","Y","Z">>
LowerLetters == <<"a","b","c","d","e","f","g","h","i","j","k","l","m",
           "n","o","p","q","r","s","t","u","v","w","x","y","z">>

\* the lower-case letter of each upper-case letter
ToLower == [c \in {Upper[k] : k \in 1..26} |-> LowerLetters[CHOOSE k \in 1..26 : Upper[k] = c]]

LowerCh(c) == IF c \in DOMAIN ToLower THEN ToLower[c] ELSE c

RECURSIVE LowerRange(_, _, _)
\* s[a..b] in lower case, by halves
LowerRange(s, a, b) ==
    IF a > b THEN ""
    ELSE IF a = b THEN LowerCh(Ch(s, a))
    ELSE LowerRange(s, a, (a + b) \div 2) \o LowerRange(s, (a + b) \div 2 + 1, b)

\* str.lower()
Lower(s) == LowerRange(s, 1, Len(s))

\* s[i:].startswith(p), i 1-based
StartsAt(s, i, p) == i + Len(p) - 1 <= Len(s) /\ SubSeq(s, i, i + Len(p) - 1) = p

\* p in s
In(p, s) == \E i \in 1..(Len(s) - Len(p) + 1) : StartsAt(s, i, p)

RECURSIVE CountFrom(_, _, _)
\* the occurrences of p in s from position i on, each searched after the one before
CountFrom(s, p, i) ==
    Let(First({j \in i..(Len(s) - Len(p) + 1) : StartsAt(s, j, p)}), LAMBDA next :
        IF next = 0 THEN 0 ELSE 1 + CountFrom(s, p, next + Len(p)))

\* s.count(p): non-overlapping occurrences, left to right (p non-empty)
Count(s, p) == CountFrom(s, p, 1)

\* any(k in s for k in keywords), keywords a sequence of strings
AnyIn(keywords, s) == \E k \in 1..Len(keywords) : In(keywords[k], s)

\* sum(1 for k in keywords if k in s)
NumIn(keywords, s) == Cardinality({k \in 1..Len(keywords) : In(keywords[k], s)})

(***************************************************************************)
(* Regular-expression primitives: character classes, greedy runs, int()    *)
(***************************************************************************)

Digits == <<"0","1","2","3","4","5","6","7","8","9">>

\* \d
IsDigit(c) == \E k \in 1..10 : Digits[k] = c

\* \s
IsSpace(c) == c \in {" ", "\n", "\t"}

DigitVal(c) == (CHOOSE k \in 1..10 : Digits[k] = c) - 1

RECURSIVE DigitsEnd(_, _)
\* the position after the longest run of digits that starts at i (i: no digit at i)
DigitsEnd(s, i) == IF i <= Len(s) /\ IsDigit(Ch(s, i)) THEN DigitsEnd(s, i + 1) ELSE i

RECURSIVE SpacesEnd(_, _)
\* the position after the longest run of white space that starts at i
SpacesEnd(s, i) == IF i <= Len(s) /\ IsSpace(Ch(s, i)) THEN SpacesEnd(s, i + 1) ELSE i

RECURSIVE GroupsEnd(_, _, _)
\* (?:<sep>\d+)* greedy from i: the position after the last group
GroupsEnd(s, i, sep) ==
    Let(DigitsEnd(s, i + 1), LAMBDA e :
        IF StartsAt(s, i, sep) /\ e > i + 1 THEN GroupsEnd(s, e, sep) ELSE i)

\* one of the words, each with an optional plural "s", at position i:
\* (?:users?|members?) ; the position after it, 0 when none matches
WordEnd(s, i, words) ==
    Let(First({k \in 1..Len(words) : StartsAt(s, i, words[k])}), LAMBDA k :
        IF k = 0 THEN 0
        ELSE IF StartsAt(s, i + Len(words[k]), "s") THEN i + Len(words[k]) + 1
        ELSE i + Len(words[k]))

RECURSIVE ToIntFrom(_, _, _)
ToIntFrom(s, i, acc) ==
    IF i > Len(s) THEN acc ELSE ToIntFrom(s, i + 1, acc * 10 + DigitVal(Ch(s, i)))

\* int(s) of a string of digits
ToInt(s) == ToIntFrom(s, 1, 0)

RECURSIVE Pow10(_)
Pow10(n) == IF n = 0 THEN 1 ELSE 10 * Pow10(n - 1)

\* int(float(h) * 60) of "H" or "H.F" (the product taken exactly)
HoursToMinutes(h) ==
    Let(First({i \in 1..Len(h) : Ch(h, i) = "."}), LAMBDA d :
        IF d = 0 THEN ToInt(h) * 60
        ELSE ToInt(SubSeq(h, 1, d - 1)) * 60
             + (ToInt(SubSeq(h, d + 1, Len(h))) * 60) \div Pow10(Len(h) - d))

(***************************************************************************)
(* A backtracking matcher for the regular expressions of the source.  A    *)
(* pattern is a sequence of elements, written with the constructors below  *)
(* and concatenated with \o.  A pattern compiled with (?i) or re.IGNORECASE*)
(* is matched against the lower-cased subject, its literals in lower case. *)
(***************************************************************************)

Unbounded == 100000

Lit(v) == <<[t |-> "lit", v |-> v]>>                      \* the literal text v
Rep(cls, lo, hi) == <<[t |-> "rep", cls |-> cls, lo |-> lo, hi |-> hi, lazy |-> FALSE]>>
Lazy(cls, lo, hi) == <<[t |-> "rep", cls |-> cls, lo |-> lo, hi |-> hi, lazy |-> TRUE]>>
D1 == Rep("d", 1, Unbounded)                              \* \d+
S1 == Rep("s", 1, Unbounded)                              \* \s+
S0 == Rep("s", 0, Unbounded)                              \* \s*
Alt(ps) == <<[t |-> "alt", ps |-> ps]>>                   \* (?:p1|p2|...)
Opt(q) == Alt(<<q, <<>>>>)                                \* (?:q)?
Star(q) == <<[t |-> "star", p |-> q]>>                    \* (?:q)*
Cap(n, q) == <<[t |-> "capS", n |-> n]>> \o q \o <<[t |-> "capE", n |-> n]>>  \* group n
Word(w) == Lit(w) \o Opt(Lit("s"))                        \* w followed by s?
Look(q) == <<[t |-> "look", p |-> q]>>                    \* (?=q)
Bos == <<[t |-> "bos"]>>                                  \* ^
Bol == <<[t |-> "bol"]>>                                  \* ^ with re.MULTILINE
Eol == <<[t |-> "eol"]>>                                  \* $ with re.MULTILINE
Eos == <<[t |-> "eos"]>>                                  \* $

IsUpperLetter(c) == c \in DOMAIN ToLower
IsLowerLetter(c) == c \in {LowerLetters[k] : k \in 1..26}
IsLetter(c) == IsUpperLetter(c) \/ IsLowerLetter(c)

\* membership of a character in a class; a class is named by its text in the source
InClass(cls, c) ==
    CASE cls = "d" -> IsDigit(c)                          \* \d
      [] cls = "s" -> IsSpace(c)                          \* \s
      [] cls = "w" -> IsDigit(c) \/ c = "_" \/ IsLetter(c)  \* \w
      [] cls = "S" -> ~IsSpace(c)                         \* \S
      [] cls = "." -> c # "\n"                            \* . without DOTALL
      [] cls = "[.!?]" -> c \in {".", "!", "?"}
      [] cls = "[^.!?]" -> c \notin {".", "!", "?"}
      [] cls = "[.;]" -> c \in {".", ";"}
      [] cls = "[^.;]" -> c \notin {".", ";"}
      [] cls = "[\\[\\]{}]" -> c \in {"[", "]", "{", "}"}
      [] cls = "[^\\[\\]{}]" -> c \notin {"[", "]", "{", "}"}
      [] cls = "any" -> TRUE                              \* . with DOTALL
      [] cls = "[:\\s]" -> c = ":" \/ IsSpace(c)
      [] cls = "[^)]" -> c # ")"
      [] cls = "[^.]" -> c # "."
      [] cls = "[a-zA-Z\\s]" -> IsLetter(c) \/ IsSpace(c)
      [] cls = "[a-zA-Z]" -> IsLetter(c)
      [] cls = "[A-Z]" -> IsUpperLetter(c)
      [] cls = "[a-z]" -> IsLowerLetter(c)
      [] cls = "[a-z\\s]" -> IsLowerLetter(c) \/ IsSpace(c)
      [] cls = "[.)]" -> c \in {".", ")"}
      [] cls = "[-*]" -> c \in {"-", "*"}                 \* the bullet characters
      [] cls = "[-*\\d]" -> c \in {"-", "*"} \/ IsDigit(c)
      [] cls = "[- ]" -> c \in {"-", " "}
      [] OTHER -> FALSE

RECURSIVE RunStop(_, _, _, _)
\* the first position from i on whose character is not of cls (Len(sb) + 1: none),
\* looked for in windows of w, 2w, 4w, ... characters
RunStop(sb, i, cls, w) ==
    Or(First({j \in i..Min(Len(sb), i + w - 1) : ~InClass(cls, Ch(sb, j))}),
       IF i + w > Len(sb) THEN Len(sb) + 1 ELSE RunStop(sb, i + w, cls, 2 * w))

\* the position after the longest run of at most n characters of cls from i
RunEnd(sb, i, cls, n) == Min(RunStop(sb, i, cls, 4), i + n)

MaxGroups == 2
NoCaps == [n \in 1..MaxGroups |-> <<0, 0>>]
Fail == [ok |-> FALSE, start |-> 0, end |-> 0, caps |-> NoCaps]

\* the greatest element of a set of positions, 0 when it is empty
Last(S) == IF S = {} THEN 0 ELSE CHOOSE i \in S : \A j \in S : j <= i

RECURSIVE M(_, _, _, _)
RECURSIVE LazyEnd(_, _, _, _, _, _)
RECURSIVE GreedyEnd(_, _, _, _, _, _)

\* the match of rest at the first of the positions S of a window, the match further
\* on when the window has none
LazyIn(S, rest, sb, a, b, w, caps) ==
    CASE S # {} -> M(rest, sb, First(S), caps)
      [] a + w > b -> Fail
      [] OTHER -> LazyEnd(rest, sb, a + w, b, 2 * w, caps)

\* a lazy repetition that may end at any of the positions a..b, followed by rest: the
\* match of rest at the first of these positions at which it matches, looked for in
\* windows of w, 2w, 4w, ... positions
LazyEnd(rest, sb, a, b, w, caps) ==
    LazyIn({p \in a..Min(b, a + w - 1) : M(rest, sb, p, caps).ok}, rest, sb, a, b, w, caps)

\* the match of rest at the last of the positions S of a window, the match further
\* back when the window has none
GreedyIn(S, rest, sb, a, b, w, caps) ==
    CASE S # {} -> M(rest, sb, Last(S), caps)
      [] b - w < a -> Fail
      [] OTHER -> GreedyEnd(rest, sb, a, b - w, 2 * w, caps)

\* a greedy repetition that may end at any of the positions a..b, followed by rest:
\* the match of rest at the last of these positions at which it matches
GreedyEnd(rest, sb, a, b, w, caps) ==
    GreedyIn({p \in Max(a, b - w + 1)..b : M(rest, sb, p, caps).ok}, rest, sb, a, b, w, caps)

\* the first match of pattern q at position pos, in backtracking order
M(q, sb, pos, caps) ==
    CASE q = <<>> -> [ok |-> TRUE, start |-> 0, end |-> pos, caps |-> caps]
      [] q[1].t = "lit" ->
           IF StartsAt(sb, pos, q[1].v) THEN M(Tail(q), sb, pos + Len(q[1].v), caps) ELSE Fail
      [] q[1].t = "rep" /\ q[1].lazy ->
           LazyEnd(Tail(q), sb, pos + q[1].lo, RunEnd(sb, pos, q[1].cls, q[1].hi), 4, caps)
      [] q[1].t = "rep" ->
           GreedyEnd(Tail(q), sb, pos + q[1].lo, RunEnd(sb, pos, q[1].cls, q[1].hi), 4, caps)
      [] q[1].t = "alt" ->
           Let(M(q[1].ps[1] \o Tail(q), sb, pos, caps), LAMBDA r :
               CASE r.ok -> r
                 [] Len(q[1].ps) = 1 -> Fail
                 [] OTHER -> M(Alt(Tail(q[1].ps)) \o Tail(q), sb, pos, caps))
      [] q[1].t = "star" ->
           Let(M(q[1].p \o <<q[1]>> \o Tail(q), sb, pos, caps), LAMBDA r :
               IF r.ok THEN r ELSE M(Tail(q), sb, pos, caps))
      [] q[1].t = "look" ->
           IF M(q[1].p, sb, pos, caps).ok THEN M(Tail(q), sb, pos, caps) ELSE Fail
      [] q[1].t = "bos" -> IF pos = 1 THEN M(Tail(q), sb, pos, caps) ELSE Fail
      [] q[1].t = "bol" ->
           IF pos = 1 \/ Ch(sb, pos - 1) = "\n" THEN M(Tail(q), sb, pos, caps) ELSE Fail
      [] q[1].t = "eol" ->
           IF pos = Len(sb) + 1 \/ Ch(sb, pos) = "\n" THEN M(Tail(q), sb, pos, caps)
           ELSE Fail
      [] q[1].t = "eos" ->
           IF pos = Len(sb) + 1 \/ (pos = Len(sb) /\ Ch(sb, pos) = "\n")
           THEN M(Tail(q), sb, pos, caps) ELSE Fail
      [] q[1].t = "capS" -> M(Tail(q), sb, pos, [caps EXCEPT ![q[1].n] = <<pos, 0>>])
      [] q[1].t = "capE" ->
           M(Tail(q), sb, pos, [caps EXCEPT ![q[1].n] = <<caps[q[1].n][1], pos>>])
      [] OTHER -> Fail

RECURSIVE SearchStart(_, _, _, _)
\* the leftmost position from from on at which q matches (0: none), looked for in
\* windows of w, 2w, 4w, ... positions
SearchStart(q, sb, from, w) ==
    IF from > Len(sb) + 1 THEN 0
    ELSE Or(First({j \in from..Min(Len(sb) + 1, from + w - 1) : M(q, sb, j, NoCaps).ok}),
            SearchStart(q, sb, from + w, 2 * w))

\* re.search(q, sb) from position from on: the leftmost match
SearchFrom(q, sb, from) ==
    Let(SearchStart(q, sb, from, 16), LAMBDA i :
        IF i = 0 THEN Fail ELSE [M(q, sb, i, NoCaps) EXCEPT !.start = i])

Search(q, sb) == SearchFrom(q, sb, 1)

\* match.group(n) read from the text tx (None: the group did not take part)
Group(tx, m, n) ==
    IF m.caps[n][2] = 0 THEN None ELSE SubSeq(tx, m.caps[n][1], m.caps[n][2] - 1)

RECURSIVE FindAllFrom(_, _, _)
\* len(re.findall(q, sb)): the matches do not overlap (no pattern here matches "")
FindAllFrom(q, sb, from) ==
    Let(SearchFrom(q, sb, from), LAMBDA m :
        IF ~m.ok THEN 0 ELSE 1 + FindAllFrom(q, sb, m.end))

CountMatches(q, sb) == FindAllFrom(q, sb, 1)

RECURSIVE FindIter(_, _, _)
\* re.finditer(q, sb): the matches from left to right, none overlapping another
FindIter(q, sb, from) ==
    Let(SearchFrom(q, sb, from), LAMBDA m :
        IF ~m.ok THEN <<>>
        ELSE <<m>> \o FindIter(q, sb, IF m.end > m.start THEN m.end ELSE m.end + 1))

\* re.findall(q, sb) of a pattern with one group, read from the text tx
FindAll(q, sb, tx) ==
    Let(FindIter(q, sb, 1), LAMBDA ms : [k \in 1..Len(ms) |-> Group(tx, ms[k], 1)] \o <<>>)

RECURSIVE SubFrom(_, _, _, _, _)
\* re.sub(q, repl, tx), q matched against sb (tx, or tx in lower case), from i on
SubFrom(q, sb, tx, repl, i) ==
    Let(SearchFrom(q, sb, i), LAMBDA m :
        IF ~m.ok THEN SubSeq(tx, i, Len(tx))
        ELSE IF m.end > m.start
        THEN SubSeq(tx, i, m.start - 1) \o repl \o SubFrom(q, sb, tx, repl, m.end)
        ELSE SubSeq(tx, i, m.start - 1) \o repl \o Ch(tx, m.start)
             \o SubFrom(q, sb, tx, repl, m.start + 1))

Sub(q, sb, tx, repl) == SubFrom(q, sb, tx, repl, 1)

(***************************************************************************)
(* The string methods of the source                                        *)
(***************************************************************************)

RECURSIVE RunStart(_, _, _, _)
\* the last position up to i whose character is not of cls (0: none), looked for in
\* windows of w, 2w, 4w, ... characters
RunStart(s, i, cls, w) ==
    Or(Last({j \in Max(1, i - w + 1)..i : ~InClass(cls, Ch(s, j))}),
       IF i <= w THEN 0 ELSE RunStart(s, i - w, cls, 2 * w))

\* s.strip()
Strip(s) == SubSeq(s, RunStop(s, 1, "s", 4), RunStart(s, Len(s), "s", 4))

RECURSIVE RStrip(_, _)
\* s.rstrip(ch)
RStrip(s, ch) ==
    IF Len(s) > 0 /\ Ch(s, Len(s)) = ch THEN RStrip(SubSeq(s, 1, Len(s) - 1), ch) ELSE s

\* s.startswith(p) and s.endswith(p)
StartsWith(s, p) == StartsAt(s, 1, p)
EndsWith(s, p) == Len(p) <= Len(s) /\ StartsAt(s, Len(s) - Len(p) + 1, p)

\* what re.sub(r'\s+', ' ', s) leaves of character k: the first character of a run of
\* whitespace becomes a space and the others go
CollapseCh(s, k) ==
    IF ~IsSpace(Ch(s, k)) THEN Ch(s, k)
    ELSE IF IsSpace(Ch(s, k - 1)) THEN ""
    ELSE " "

RECURSIVE CollapseRange(_, _, _)
\* re.sub(r'\s+', ' ', s) of the characters a..b, by halves
CollapseRange(s, a, b) ==
    IF a > b THEN ""
    ELSE IF a = b THEN CollapseCh(s, a)
    ELSE CollapseRange(s, a, (a + b) \div 2) \o CollapseRange(s, (a + b) \div 2 + 1, b)

Collapse(s) == CollapseRange(s, 1, Len(s))

RECURSIVE SplitFrom(_, _, _, _)
\* re.split(r'[...]+', s): the texts between the runs of characters of the class sep
\* (non: the class of the other characters), from character i on
SplitFrom(s, i, sep, non) ==
    Let(RunStop(s, i, non, 4), LAMBDA j :
        IF j > Len(s) THEN <<SubSeq(s, i, Len(s))>>
        ELSE <<SubSeq(s, i, j - 1)>> \o SplitFrom(s, RunStop(s, j, sep, 4), sep, non))

\* re.split(r'[.!?]+', s)
SplitSentences(s) == SplitFrom(s, 1, "[.!?]", "[^.!?]")

RECURSIVE SplitEachFrom(_, _, _)
\* re.split(r'[.;]', s): the texts between the characters . and ;
SplitEachFrom(s, i, non) ==
    Let(RunStop(s, i, non, 4), LAMBDA j :
        IF j > Len(s) THEN <<SubSeq(s, i, Len(s))>>
        ELSE <<SubSeq(s, i, j - 1)>> \o SplitEachFrom(s, j + 1, non))

SplitClauses(s) == SplitEachFrom(s, 1, "[^.;]")

RECURSIVE SplitOnFrom(_, _, _)
\* s.split(sep) for a text sep, from character i on
SplitOnFrom(s, sep, i) ==
    Let(First({k \in i..(Len(s) - Len(sep) + 1) : StartsAt(s, k, sep)}), LAMBDA j :
        IF j = 0 THEN <<SubSeq(s, i, Len(s))>>
        ELSE <<SubSeq(s, i, j - 1)>> \o SplitOnFrom(s, sep, j + Len(sep)))

SplitOn(s, sep) == SplitOnFrom(s, sep, 1)

RECURSIVE ReplaceFrom(_, _, _, _)
\* s.replace(old, new), from character i on
ReplaceFrom(s, old, new, i) ==
    Let(First({k \in i..(Len(s) - Len(old) + 1) : StartsAt(s, k, old)}), LAMBDA j :
        IF j = 0 THEN SubSeq(s, i, Len(s))
        ELSE SubSeq(s, i, j - 1) \o new \o ReplaceFrom(s, old, new, j + Len(old)))

Replace(s, old, new) == ReplaceFrom(s, old, new, 1)

\* the upper-case letter of each lower-case letter
ToUpper == [c \in {LowerLetters[k] : k \in 1..26} |-> Upper[CHOOSE k \in 1..26 : LowerLetters[k] = c]]

RECURSIVE TitleFrom(_, _)
\* s.title(), from character i on: a letter that follows no letter is put in upper
\* case, every other letter in lower case
TitleFrom(s, i) ==
    IF i > Len(s) THEN ""
    ELSE LET ch == Ch(s, i)
         IN (IF ~IsLetter(Ch(s, i - 1))
             THEN (IF ch \in DOMAIN ToUpper THEN ToUpper[ch] ELSE ch)
             ELSE LowerCh(ch)) \o TitleFrom(s, i + 1)

StrTitle(s) == TitleFrom(s, 1)

\* the texts of q that are not in lower-case form among those before them: the
\* order-preserving removal of duplicates, ignoring case when fold is TRUE
RECURSIVE UniqueFrom(_, _, _)
UniqueFrom(q, fold, seen) ==
    IF Len(q) = 0 THEN seen
    ELSE LET key(x) == IF fold THEN Lower(x) ELSE x
         IN UniqueFrom(Tail(q), fold,
                       IF \E k \in 1..Len(seen) : key(seen[k]) = key(Head(q)) THEN seen
                       ELSE Append(seen, Head(q)))

Unique(q) == UniqueFrom(q, FALSE, <<>>)
UniqueIgnoringCase(q) == UniqueFrom(q, TRUE, <<>>)

\* q[:n]
Take(q, n) == SubSeq(q, 1, Min(n, Len(q)))

RECURSIVE Flatten(_)
\* the concatenation of a sequence of sequences
Flatten(qs) == IF Len(qs) = 0 THEN <<>> ELSE Head(qs) \o Flatten(Tail(qs))


(***************************************************************************)
(* business_impact_analyzer.py                                             *)
(***************************************************************************)

high_revenue_keywords ==
    <<"payment", "billing", "checkout", "subscription", "revenue",
      "transaction", "purchase", "order", "financial">>

critical_service_keywords ==
    <<"login", "authentication", "auth", "signup", "registration",
      "core", "main", "primary", "essential", "critical">>

\* a match object: group(0), the number of groups of the pattern and group(1)
Match(s, from, to, g1to) ==
    [found |-> TRUE, g0 |-> SubSeq(s, from, to - 1),
     groups |-> IF g1to = 0 THEN 0 ELSE 1,
     g1 |-> IF g1to = 0 THEN "" ELSE SubSeq(s, from, g1to - 1)]

\* re.search found nothing
NoMatch == [found |-> FALSE, g0 |-> "", groups |-> 0, g1 |-> ""]

\* re.search(r'(\d+(?:,\d+)*)\s+(?:<words>)', s): the end of the match that
\* starts at i (0: none) and the end of its group 1
CountNumEnd(s, i) == GroupsEnd(s, DigitsEnd(s, i), ",")
CountUnitEnd(s, i, words) ==
    Let(CountNumEnd(s, i), LAMBDA n :
    Let(SpacesEnd(s, n), LAMBDA e :
        IF IsDigit(Ch(s, i)) /\ e > n THEN WordEnd(s, e, words) ELSE 0))

SearchCountUnit(s, words) ==
    Let(First({j \in 1..Len(s) : CountUnitEnd(s, j, words) # 0}), LAMBDA i :
        IF i = 0 THEN NoMatch ELSE Match(s, i, CountUnitEnd(s, i, words), CountNumEnd(s, i)))

\* re.search(r'(\d+(?:\.\d+)?%)\s+of\s+(?:users?|members?)', s)
DecimalEnd(s, i) ==
    Let(DigitsEnd(s, i), LAMBDA e :
    Let(DigitsEnd(s, e + 1), LAMBDA f :
        IF StartsAt(s, e, ".") /\ f > e + 1 THEN f ELSE e))
PercentOfEnd(s, i) ==
    Let(DecimalEnd(s, i), LAMBDA e :
    Let(SpacesEnd(s, e + 1), LAMBDA s1 :
    Let(SpacesEnd(s, s1 + 2), LAMBDA s2 :
        IF /\ IsDigit(Ch(s, i)) /\ StartsAt(s, e, "%") /\ s1 > e + 1
           /\ StartsAt(s, s1, "of") /\ s2 > s1 + 2
        THEN WordEnd(s, s2, <<"user", "member">>)
        ELSE 0)))

SearchPercentOf(s) ==
    Let(First({j \in 1..Len(s) : PercentOfEnd(s, j) # 0}), LAMBDA i :
        IF i = 0 THEN NoMatch ELSE Match(s, i, PercentOfEnd(s, i), DecimalEnd(s, i) + 1))

\* re.search(r'(?:all|entire)\s+(?:user\s+)?base', s)
AllBaseEnd(s, i) ==
    Let(IF StartsAt(s, i, "all") THEN i + 3
        ELSE IF StartsAt(s, i, "entire") THEN i + 6 ELSE 0, LAMBDA w :
    Let(SpacesEnd(s, w), LAMBDA s1 :
    Let(SpacesEnd(s, s1 + 4), LAMBDA s2 :
        IF w = 0 \/ s1 = w THEN 0
        ELSE IF StartsAt(s, s1, "user") /\ s2 > s1 + 4 /\ StartsAt(s, s2, "base") THEN s2 + 4
        ELSE IF StartsAt(s, s1, "base") THEN s1 + 4
        ELSE 0)))

SearchAllBase(s) ==
    Let(First({j \in 1..Len(s) : AllBaseEnd(s, j) # 0}), LAMBDA i :
        IF i = 0 THEN NoMatch ELSE Match(s, i, AllBaseEnd(s, i), 0))

\* self.customer_impact_patterns, each applied with re.search
customer_impact_patterns(s) ==
    <<SearchCountUnit(s, <<"user", "member", "customer">>),
      SearchPercentOf(s),
      SearchAllBase(s),
      SearchCountUnit(s, <<"account", "profile">>)>>

\* what the loop body returns for a match (None: it falls through to the next pattern)
CustomerPhrase(match) ==
    IF In("all", match.g0) \/ In("entire", match.g0) THEN "All users affected"
    ELSE IF match.groups > 0
         THEN IF In("%", match.g1) THEN match.g1 \o " of user base"
              ELSE match.g1 \o " users"
    ELSE None

\* _extract_customer_impact with the default of the incident record for its last return
CustomerImpactNotSpecified(c, sm) ==
    LET returned(match) ==
            Let(CustomerPhrase(match), LAMBDA phrase :
                IF match.found /\ phrase # None THEN <<phrase>> ELSE <<>>)
    IN Let(Lower(c \o " " \o sm), LAMBDA combined_text :
       Let(FirstResult(customer_impact_patterns(combined_text), returned), LAMBDA hit :
           IF hit # <<>> THEN hit[1]
           ELSE IF AnyIn(<<"all users", "entire user base", "everyone">>, combined_text)
                THEN "All users affected"
           ELSE IF AnyIn(<<"many users", "multiple users", "several">>, combined_text)
                THEN "Multiple users affected (unquantified)"
           ELSE IF AnyIn(<<"some users", "few users", "limited">>, combined_text)
                THEN "Limited users affected"
           ELSE "Not specified"))

_extract_customer_impact(c, sm) ==
    LET returned(match) ==
            Let(CustomerPhrase(match), LAMBDA phrase :
                IF match.found /\ phrase # None THEN <<phrase>> ELSE <<>>)
    IN Let(Lower(c \o " " \o sm), LAMBDA combined_text :
       Let(FirstResult(customer_impact_patterns(combined_text), returned), LAMBDA hit :
           IF hit # <<>> THEN hit[1]
           ELSE IF AnyIn(<<"all users", "entire user base", "everyone">>, combined_text)
                THEN "All users affected"
           ELSE IF AnyIn(<<"many users", "multiple users", "several">>, combined_text)
                THEN "Multiple users affected (unquantified)"
           ELSE IF AnyIn(<<"some users", "few users", "limited">>, combined_text)
                THEN "Limited users affected"
           ELSE "User impact not specified"))

\* (r'(\d+)\s*hours?\s*(\d+)?\s*min', lambda h, m: int(h) * 60 + (int(m) if m else 0))
HoursEnd(s, i) ==
    Let(SpacesEnd(s, DigitsEnd(s, i)), LAMBDA s1 :
        IF IsDigit(Ch(s, i)) /\ StartsAt(s, s1, "hour")
        THEN (IF StartsAt(s, s1 + 4, "s") THEN s1 + 5 ELSE s1 + 4)
        ELSE 0)
HourMinMatches(s, i) ==
    Let(HoursEnd(s, i), LAMBDA e :
        e # 0 /\ StartsAt(s, SpacesEnd(s, DigitsEnd(s, SpacesEnd(s, e))), "min"))
HourMinValue(s, i) ==
    Let(SpacesEnd(s, HoursEnd(s, i)), LAMBDA m1 :
    Let(DigitsEnd(s, m1), LAMBDA m2 :
        ToInt(SubSeq(s, i, DigitsEnd(s, i) - 1)) * 60
          + (IF m2 > m1 THEN ToInt(SubSeq(s, m1, m2 - 1)) ELSE 0)))

\* (r'(\d+(?:\.\d+)?)\s*hours?', lambda h: int(float(h) * 60))
DecimalHoursMatches(s, i) ==
    IsDigit(Ch(s, i)) /\ StartsAt(s, SpacesEnd(s, DecimalEnd(s, i)), "hour")
DecimalHoursValue(s, i) == HoursToMinutes(SubSeq(s, i, DecimalEnd(s, i) - 1))

\* r'(\d+)\s*(?:<unit>...)' for a unit that is a prefix of all its alternatives
NumberUnitMatches(s, i, unit) ==
    IsDigit(Ch(s, i)) /\ StartsAt(s, SpacesEnd(s, DigitsEnd(s, i)), unit)
NumberValue(s, i) == ToInt(SubSeq(s, i, DigitsEnd(s, i) - 1))

\* r'<word>\s+(?:<opt>\s+)?(\d+)\s*(?:mins?|minutes?)'; must: the <opt> word is not optional
DurationNumberAt(s, i, word, opt, must) ==
    Let(SpacesEnd(s, i + Len(word)), LAMBDA s1 :
    Let(SpacesEnd(s, s1 + Len(opt)), LAMBDA s2 :
        IF ~StartsAt(s, i, word) \/ s1 = i + Len(word) THEN 0
        ELSE IF /\ StartsAt(s, s1, opt) /\ s2 > s1 + Len(opt)
                /\ NumberUnitMatches(s, s2, "min") THEN s2
        ELSE IF ~must /\ NumberUnitMatches(s, s1, "min") THEN s1
        ELSE 0))
SearchDuration(s, word, opt, must) ==
    Let(First({j \in 1..Len(s) : DurationNumberAt(s, j, word, opt, must) # 0}), LAMBDA i :
        IF i = 0 THEN -1 ELSE NumberValue(s, DurationNumberAt(s, i, word, opt, must)))

\* the duration_patterns loop: the first pattern that matches gives the value
duration_patterns(s) ==
    <<SearchDuration(s, "lasted", "for", FALSE),
      SearchDuration(s, "down", "for", TRUE),
      SearchDuration(s, "outage", "of", FALSE)>>

\* _extract_downtime with the minutes pattern tried before the two hours patterns
DowntimeMinutesFirst(c) ==
    Let(Lower(c), LAMBDA content_lower :
    Let(First({i \in 1..Len(content_lower) : NumberUnitMatches(content_lower, i, "min")}),
        LAMBDA mn :
        IF mn # 0 THEN NumberValue(content_lower, mn) ELSE
    Let(First({i \in 1..Len(content_lower) : HourMinMatches(content_lower, i)}), LAMBDA hm :
        IF hm # 0 THEN HourMinValue(content_lower, hm) ELSE
    Let(First({i \in 1..Len(content_lower) : DecimalHoursMatches(content_lower, i)}),
        LAMBDA hr :
        IF hr # 0 THEN DecimalHoursValue(content_lower, hr) ELSE
    Let(First({i \in 1..Len(content_lower) : NumberUnitMatches(content_lower, i, "second")}),
        LAMBDA sec :
        IF sec # 0 THEN Max(1, NumberValue(content_lower, sec) \div 60) ELSE
    Let(SelectSeq(duration_patterns(content_lower), LAMBDA minutes : minutes >= 0),
        LAMBDA dur :
        IF dur # <<>> THEN dur[1] ELSE 0))))))

_extract_downtime(c) ==
    Let(Lower(c), LAMBDA content_lower :
    Let(First({i \in 1..Len(content_lower) : HourMinMatches(content_lower, i)}), LAMBDA hm :
        IF hm # 0 THEN HourMinValue(content_lower, hm) ELSE
    Let(First({i \in 1..Len(content_lower) : DecimalHoursMatches(content_lower, i)}),
        LAMBDA hr :
        IF hr # 0 THEN DecimalHoursValue(content_lower, hr) ELSE
    Let(First({i \in 1..Len(content_lower) : NumberUnitMatches(content_lower, i, "min")}),
        LAMBDA mn :
        IF mn # 0 THEN NumberValue(content_lower, mn) ELSE
    Let(First({i \in 1..Len(content_lower) : NumberUnitMatches(content_lower, i, "second")}),
        LAMBDA sec :
        IF sec # 0 THEN Max(1, NumberValue(content_lower, sec) \div 60) ELSE
    Let(SelectSeq(duration_patterns(content_lower), LAMBDA minutes : minutes >= 0),
        LAMBDA dur :
        IF dur # <<>> THEN dur[1] ELSE 0))))))

\* _estimate_revenue_impact with the high bucket given whatever the downtime
RevenueImpactIgnoringDowntime(c, sm, prio, downtime_minutes) ==
    Let(Lower(c \o " " \o sm), LAMBDA combined_text :
    Let(AnyIn(high_revenue_keywords, combined_text), LAMBDA is_revenue_critical :
    Let(AnyIn(critical_service_keywords, combined_text), LAMBDA is_critical_service :
        IF prio = "P1"
        THEN IF is_revenue_critical
             THEN "High: $50K+ potential revenue impact"
             ELSE IF is_critical_service /\ downtime_minutes > 15
             THEN "Medium: $10K-50K potential impact"
             ELSE "Medium: $5K-25K potential impact"
        ELSE IF prio = "P2"
        THEN IF is_revenue_critical THEN "Medium: $5K-25K potential impact"
             ELSE "Low: $1K-10K potential impact"
        ELSE IF prio = "P3"
        THEN IF is_revenue_critical THEN "Low: $1K-5K potential impact"
             ELSE "Minimal: <$1K potential impact"
        ELSE "Minimal: <$500 potential impact")))

_estimate_revenue_impact(c, sm, prio, downtime_minutes) ==
    Let(Lower(c \o " " \o sm), LAMBDA combined_text :
    Let(AnyIn(high_revenue_keywords, combined_text), LAMBDA is_revenue_critical :
    Let(AnyIn(critical_service_keywords, combined_text), LAMBDA is_critical_service :
        IF prio = "P1"
        THEN IF is_revenue_critical /\ downtime_minutes > 30
             THEN "High: $50K+ potential revenue impact"
             ELSE IF is_critical_service /\ downtime_minutes > 15
             THEN "Medium: $10K-50K potential impact"
             ELSE "Medium: $5K-25K potential impact"
        ELSE IF prio = "P2"
        THEN IF is_revenue_critical THEN "Medium: $5K-25K potential impact"
             ELSE "Low: $1K-10K potential impact"
        ELSE IF prio = "P3"
        THEN IF is_revenue_critical THEN "Low: $1K-5K potential impact"
             ELSE "Minimal: <$1K potential impact"
        ELSE "Minimal: <$500 potential impact")))

\* priority_scores.get(priority, 0): an unknown priority scores less than P4
PriorityScoresDefaultZero(prio) ==
    CASE prio = "P1" -> 4 [] prio = "P2" -> 3 [] prio = "P3" -> 2 [] prio = "P4" -> 1
      [] OTHER -> 0

\* priority_scores.get(priority, 1)
priority_scores(prio) ==
    CASE prio = "P1" -> 4 [] prio = "P2" -> 3 [] prio = "P3" -> 2 [] prio = "P4" -> 1
      [] OTHER -> 1

\* CustomerScore with the marker 'users' in the place of 'k users'
CustomerScoreUsersMarker(customer_count) ==
    LET cc == Lower(customer_count)
    IN IF In("all users", cc) THEN 3
       ELSE IF AnyIn(<<"%", "thousand", "users">>, cc) THEN 2
       ELSE IF In("multiple", cc) \/ In("several", cc) THEN 1
       ELSE 0

\* the customer-impact points of _calculate_impact_score
CustomerScore(customer_count) ==
    LET cc == Lower(customer_count)
    IN IF In("all users", cc) THEN 3
       ELSE IF AnyIn(<<"%", "thousand", "k users">>, cc) THEN 2
       ELSE IF In("multiple", cc) \/ In("several", cc) THEN 1
       ELSE 0

\* the downtime points of _calculate_impact_score
DowntimeScore(downtime_minutes) ==
    IF downtime_minutes > 120 THEN 2 ELSE IF downtime_minutes > 30 THEN 1 ELSE 0

\* _calculate_impact_score without the final min(score, 10)
ImpactScoreUncapped(prio, customer_count, downtime_minutes, c, sm) ==
    1 + priority_scores(prio) + CustomerScore(customer_count)
      + DowntimeScore(downtime_minutes)
      + (IF AnyIn(high_revenue_keywords, Lower(c \o " " \o sm)) THEN 1 ELSE 0)

_calculate_impact_score(prio, customer_count, downtime_minutes, c, sm) ==
    LET combined_text == Lower(c \o " " \o sm)
        score == 1 + priority_scores(prio) + CustomerScore(customer_count)
                   + DowntimeScore(downtime_minutes)
                   + (IF AnyIn(high_revenue_keywords, combined_text) THEN 1 ELSE 0)
    IN Min(score, 10)

\* "; ".join(reasons)
RECURSIVE Join(_, _)
Join(sep, parts) ==
    IF Len(parts) = 0 THEN ""
    ELSE IF Len(parts) = 1 THEN parts[1]
    ELSE parts[1] \o sep \o Join(sep, Tail(parts))

_generate_severity_justification(impact_score, prio, customer_count, downtime_minutes) ==
    LET tier == IF impact_score >= 8 THEN "Critical business impact"
                ELSE IF impact_score >= 6 THEN "Significant business impact"
                ELSE IF impact_score >= 4 THEN "Moderate business impact"
                ELSE "Limited business impact"
        urgency == IF prio \in {"P1", "P2"}
                   THEN <<prio \o " incident with high urgency">> ELSE <<>>
        users == IF In("all users", Lower(customer_count))
                 THEN <<"Complete service disruption">>
                 ELSE IF AnyIn(<<"%", "thousand", "k">>, customer_count)
                 THEN <<"Large user base affected">>
                 ELSE <<>>
        down == IF downtime_minutes > 60
                THEN <<"Extended downtime (" \o ToString(downtime_minutes) \o " minutes)">>
                ELSE IF downtime_minutes > 0
                THEN <<"Service interruption (" \o ToString(downtime_minutes) \o " minutes)">>
                ELSE <<>>
    IN Join("; ", <<tier>> \o urgency \o users \o down)

BusinessFallback(error_message) ==
    [impact_score |-> 1,
     customer_count_affected |-> "Analysis failed",
     revenue_impact_est |-> "Unable to estimate",
     service_downtime_minutes |-> 0,
     severity_justification |-> "Business impact analysis failed: " \o error_message]

\* the steps of the try block of analyze_business_impact, any of which may raise
BusinessSteps == {"_extract_customer_impact", "_extract_downtime", "_estimate_revenue_impact",
                  "_calculate_impact_score", "_generate_severity_justification"}

\* analyze_business_impact(content, ticket_key, priority, summary, pods_engaged);
\* flt: the step that raises, "none" when none does
analyze_business_impact(c, prio, sm, flt) ==
    IF flt \in BusinessSteps THEN BusinessFallback(flt)
    ELSE Let(_extract_customer_impact(c, sm), LAMBDA customer_count :
         Let(_extract_downtime(c), LAMBDA downtime_minutes :
         Let(_calculate_impact_score(prio, customer_count, downtime_minutes, c, sm),
             LAMBDA impact_score :
             [impact_score |-> impact_score,
              customer_count_affected |-> customer_count,
              revenue_impact_est |-> _estimate_revenue_impact(c, sm, prio, downtime_minutes),
              service_downtime_minutes |-> downtime_minutes,
              severity_justification |->
                  _generate_severity_justification(impact_score, prio, customer_count,
                                                   downtime_minutes)])))

(***************************************************************************)
(* technical_analyzer.py                                                   *)
(***************************************************************************)

\* self.cause_patterns, in the dict's insertion order
cause_patterns ==
    <<[category |-> "Code Bug", keywords |->
         <<"bug", "error", "exception", "null pointer", "index out of bounds",
           "race condition", "memory leak", "logic error", "off by one">>],
      [category |-> "Configuration Error", keywords |->
         <<"config", "setting", "parameter", "environment variable", "property",
           "misconfigured", "wrong setting", "configuration error">>],
      [category |-> "Infrastructure Failure", keywords |->
         <<"server", "hardware", "network", "database", "disk space", "memory",
           "cpu", "load balancer", "dns", "ssl", "certificate", "aws", "cloud">>],
      [category |-> "Deployment Issue", keywords |->
         <<"deploy", "release", "rollback", "version", "build", "pipeline",
           "ci/cd", "migration", "update", "upgrade">>],
      [category |-> "External Dependency", keywords |->
         <<"third party", "external", "vendor", "api", "service", "upstream",
           "downstream", "integration", "webhook", "partner">>],
      [category |-> "Capacity/Performance", keywords |->
         <<"capacity", "performance", "slow", "timeout", "overload", "scaling",
           "traffic", "load", "bottleneck", "latency", "throughput">>],
      [category |-> "Process/Human Error", keywords |->
         <<"human error", "manual", "process", "procedure", "forgot", "missed",
           "training", "communication", "handoff">>],
      [category |-> "Monitoring/Alerting Gap", keywords |->
         <<"monitoring", "alert", "detection", "observability", "logging",
           "metric", "dashboard", "notification", "no alert">>]>>

\* RootCauseCategory.UNKNOWN.value
UNKNOWN == "Unknown/Not Classified"

RECURSIVE SumSeq(_)
SumSeq(q) == IF Len(q) = 0 THEN 0 ELSE Head(q) + SumSeq(Tail(q))

\* a keyword score without the cap of 3
KeywordScoreUncapped(content_lower, keyword) == Count(content_lower, keyword)

\* what one keyword adds to its category's score: min(occurrences, 3)
KeywordScore(content_lower, keyword) == Min(Count(content_lower, keyword), 3)

\* the score of the k-th category
CategoryScore(content_lower, k) ==
    SumSeq([j \in 1..Len(cause_patterns[k].keywords) |->
               KeywordScore(content_lower, cause_patterns[k].keywords[j])])

\* the last item with the highest value
ArgMaxLast(scores) ==
    CHOOSE k \in 1..Len(scores) :
        /\ \A j \in 1..Len(scores) : scores[j] <= scores[k]
        /\ \A j \in (k + 1)..Len(scores) : scores[j] < scores[k]

\* max(category_scores.items(), key=lambda x: x[1]): the first item with the highest value
ArgMaxFirst(scores) ==
    CHOOSE k \in 1..Len(scores) :
        /\ \A j \in 1..Len(scores) : scores[j] <= scores[k]
        /\ \A j \in 1..(k - 1) : scores[j] < scores[k]

_classify_root_cause(c) ==
    LET content_lower == Lower(c)
        category_scores ==
            [k \in 1..Len(cause_patterns) |-> CategoryScore(content_lower, k)] \o <<>>
        best_category == ArgMaxFirst(category_scores)
    IN IF category_scores[best_category] > 0 THEN cause_patterns[best_category].category
       ELSE UNKNOWN

\* (?:mins?|minutes?) and hours?
MinUnit == Alt(<<Word("min"), Word("minute")>>)
HourUnit == Word("hour")
\* (\d+) and (\d+(?:\.\d+)?) as group 1
Number1 == Cap(1, D1)
Decimal1 == Cap(1, D1 \o Opt(Lit(".") \o D1))
\* (?:after\s+)?
After == Opt(Lit("after") \o S1)
\* time\s+to\s+
TimeTo == Lit("time") \o S1 \o Lit("to") \o S1

detection_patterns ==
    <<Lit("detecte") \o Opt(Lit("d")) \o S1 \o After \o Number1 \o S0 \o MinUnit,
      Lit("notice") \o Opt(Lit("d")) \o S1 \o After \o Number1 \o S0 \o MinUnit,
      Lit("discovere") \o Opt(Lit("d")) \o S1 \o After \o Number1 \o S0 \o MinUnit,
      Lit("alert") \o Opt(Lit("ed")) \o S1 \o After \o Number1 \o S0 \o MinUnit,
      TimeTo \o Lit("detect") \o Opt(Lit("ion")) \o Opt(Lit(":")) \o S1 \o Number1 \o S0 \o MinUnit,
      Lit("mtt") \o Opt(Lit("r")) \o S0 \o Opt(Alt(<<Lit("-"), Lit(":")>>)) \o S0
          \o Number1 \o S0 \o MinUnit>>

detection_hour_patterns ==
    <<Lit("detecte") \o Opt(Lit("d")) \o S1 \o After \o Decimal1 \o S0 \o HourUnit,
      TimeTo \o Lit("detect") \o Opt(Lit("ion")) \o Opt(Lit(":")) \o S1 \o Decimal1 \o S0 \o HourUnit>>

FixOrResolve == Alt(<<Lit("fix"), Lit("resolve")>>)

resolution_patterns ==
    <<Lit("resolve") \o Opt(Lit("d")) \o S1 \o After \o Number1 \o S0 \o MinUnit,
      Lit("fixe") \o Opt(Lit("d")) \o S1 \o After \o Number1 \o S0 \o MinUnit,
      TimeTo \o Lit("fix") \o Opt(Lit(":")) \o S1 \o Number1 \o S0 \o MinUnit,
      TimeTo \o Lit("resolv") \o Alt(<<Lit("e"), Lit("ution")>>) \o Opt(Lit(":")) \o S1
          \o Number1 \o S0 \o MinUnit,
      Lit("took") \o S1 \o Number1 \o S0 \o MinUnit \o S1 \o Lit("to") \o S1 \o FixOrResolve,
      Lit("resolution") \o S1 \o Lit("time") \o Opt(Lit(":")) \o S1 \o Number1 \o S0 \o MinUnit>>

resolution_hour_patterns ==
    <<Lit("resolve") \o Opt(Lit("d")) \o S1 \o After \o Decimal1 \o S0 \o HourUnit,
      Lit("took") \o S1 \o Decimal1 \o S0 \o HourUnit \o S1 \o Lit("to") \o S1 \o FixOrResolve,
      TimeTo \o Lit("resolv") \o Alt(<<Lit("e"), Lit("ution")>>) \o Opt(Lit(":")) \o S1
          \o Decimal1 \o S0 \o HourUnit>>

\* the index of the first pattern of the list that matches, 0 when none does
FirstMatching(patterns, sb) == First({k \in 1..Len(patterns) : Search(patterns[k], sb).ok})

\* the body shared by _extract_detection_time and _extract_resolution_time: the
\* minute patterns in order, then the hour patterns, then 0
ExtractTime(c, minute_patterns, hour_patterns) ==
    LET content_lower == Lower(c)
        m == FirstMatching(minute_patterns, content_lower)
        h == FirstMatching(hour_patterns, content_lower)
    IN IF m # 0 THEN ToInt(Group(content_lower, Search(minute_patterns[m], content_lower), 1))
       ELSE IF h # 0
       THEN HoursToMinutes(Group(content_lower, Search(hour_patterns[h], content_lower), 1))
       ELSE 0

_extract_detection_time(c) == ExtractTime(c, detection_patterns, detection_hour_patterns)

_extract_resolution_time(c) == ExtractTime(c, resolution_patterns, resolution_hour_patterns)

\* self.tech_debt_indicators
tech_debt_indicators ==
    <<[indicator |-> "legacy", weight |-> 2], [indicator |-> "technical debt", weight |-> 3],
      [indicator |-> "refactor", weight |-> 2], [indicator |-> "architectural", weight |-> 3],
      [indicator |-> "workaround", weight |-> 2], [indicator |-> "hack", weight |-> 3],
      [indicator |-> "quick fix", weight |-> 1], [indicator |-> "temporary", weight |-> 1],
      [indicator |-> "cleanup", weight |-> 1]>>

architectural_terms ==
    <<"architecture", "design flaw", "structural", "foundational",
      "system design", "architectural debt">>

\* TechnicalDebtLevel
DebtHigh == "High - Major refactoring needed"
DebtMedium == "Medium - Some improvements required"
DebtLow == "Low - Minor cleanup needed"
DebtNone == "None - Well-architected solution"

_assess_technical_debt(c) ==
    LET content_lower == Lower(c)
        debt_score ==
            SumSeq([k \in 1..Len(tech_debt_indicators) |->
                      Count(content_lower, tech_debt_indicators[k].indicator)
                        * tech_debt_indicators[k].weight])
            + 3 * NumIn(architectural_terms, content_lower)
    IN IF debt_score >= 8 THEN DebtHigh
       ELSE IF debt_score >= 4 THEN DebtMedium
       ELSE IF debt_score >= 1 THEN DebtLow
       ELSE DebtNone

\* self.automation_indicators
automation_indicators ==
    <<[indicator |-> "runbook", weight |-> 1], [indicator |-> "manual process", weight |-> 2],
      [indicator |-> "human intervention", weight |-> 2],
      [indicator |-> "could be automated", weight |-> 3],
      [indicator |-> "should automate", weight |-> 3], [indicator |-> "repetitive", weight |-> 2],
      [indicator |-> "toil", weight |-> 3], [indicator |-> "script", weight |-> 1],
      [indicator |-> "automation", weight |-> 1]>>

\* _calculate_automation_score without the cap at 5
AutomationScoreUncapped(c) ==
    LET content_lower == Lower(c)
        has(w) == In(w, content_lower)
        automation_score ==
            SumSeq([k \in 1..Len(automation_indicators) |->
                      IF has(automation_indicators[k].indicator)
                      THEN automation_indicators[k].weight ELSE 0])
            + (IF has("manual") /\ has("process") THEN 2 ELSE 0)
            + (IF has("human") /\ (has("error") \/ has("intervention")) THEN 2 ELSE 0)
            + (IF AnyIn(<<"runbook", "playbook", "procedure">>, content_lower) THEN 1 ELSE 0)
            + (IF AnyIn(<<"repetitive", "recurring", "pattern">>, content_lower) THEN 1 ELSE 0)
            + (IF has("prevent") /\ has("automat") THEN 2 ELSE 0)
    IN automation_score

_calculate_automation_score(c) ==
    LET content_lower == Lower(c)
        has(w) == In(w, content_lower)
        automation_score ==
            SumSeq([k \in 1..Len(automation_indicators) |->
                      IF has(automation_indicators[k].indicator)
                      THEN automation_indicators[k].weight ELSE 0])
            + (IF has("manual") /\ has("process") THEN 2 ELSE 0)
            + (IF has("human") /\ (has("error") \/ has("intervention")) THEN 2 ELSE 0)
            + (IF AnyIn(<<"runbook", "playbook", "procedure">>, content_lower) THEN 1 ELSE 0)
            + (IF AnyIn(<<"repetitive", "recurring", "pattern">>, content_lower) THEN 1 ELSE 0)
            + (IF has("prevent") /\ has("automat") THEN 2 ELSE 0)
    IN Min(automation_score, 5)

\* TechnicalAnalyzer._create_fallback_analysis
TechnicalFallback ==
    [root_cause_category |-> UNKNOWN,
     detection_time_minutes |-> 0,
     resolution_time_minutes |-> 0,
     technical_debt_level |-> DebtNone,
     automation_score |-> 0]

\* the steps of the try block of analyze_technical_aspects, any of which may raise
TechnicalSteps == {"_classify_root_cause", "_extract_detection_time", "_extract_resolution_time",
                   "_assess_technical_debt", "_calculate_automation_score"}

\* analyze_technical_aspects(content, ticket_key, created_date);
\* flt: the step that raises, "none" when none does
analyze_technical_aspects(c, flt) ==
    IF flt \in TechnicalSteps THEN TechnicalFallback
    ELSE [root_cause_category |-> _classify_root_cause(c),
          detection_time_minutes |-> _extract_detection_time(c),
          resolution_time_minutes |-> _extract_resolution_time(c),
          technical_debt_level |-> _assess_technical_debt(c),
          automation_score |-> _calculate_automation_score(c)]

(***************************************************************************)
(* rca_quality_analyzer.py: the seven dimension assessors                  *)
(***************************************************************************)

\* [x] if cond else []
When(cond, x) == IF cond THEN <<x>> ELSE <<>>

\* \d{n} and \d{1,2}
Dn(n) == Rep("d", n, n)
D12 == Rep("d", 1, 2)

\* \d{4}-\d{2}-\d{2}\s+\d{1,2}:\d{2}
IsoTimestamp == Dn(4) \o Lit("-") \o Dn(2) \o Lit("-") \o Dn(2) \o S1 \o D12 \o Lit(":") \o Dn(2)

\* timestamp_patterns of _assess_timeline_detection (case-sensitive)
timestamp_patterns ==
    <<IsoTimestamp,
      D12 \o Lit(":") \o Dn(2) \o S1
          \o Alt(<<Lit("AM"), Lit("PM"), Lit("PST"), Lit("EST"), Lit("UTC")>>),
      D12 \o Lit("/") \o D12 \o Lit("/") \o Dn(4) \o S1 \o D12 \o Lit(":") \o Dn(2)>>

\* sum(len(re.findall(pattern, text)) for pattern in patterns)
CountAll(patterns, tx) ==
    SumSeq([k \in 1..Len(patterns) |-> CountMatches(patterns[k], tx)] \o <<>>)

\* any(re.search(pattern, text) for pattern in patterns)
AnyMatch(patterns, tx) == \E k \in 1..Len(patterns) : Search(patterns[k], tx).ok

\* _assess_timeline_detection with the timestamps counted outside the timeline branch
TimelineDetectionIndependent(c) ==
    LET cl == Lower(c)
        has_timeline == In("timeline", cl)
        timestamp_count == CountAll(timestamp_patterns, c)
        detection ==
            AnyIn(<<"alert", "monitor", "detect", "notice", "discover", "pingdom", "datadog",
                    "alarm">>, cl)
        response == AnyIn(<<"time to", "response time", "detection time", "resolution time">>, cl)
        score ==
            (IF has_timeline THEN 4 ELSE 0)
            + (IF timestamp_count >= 5 THEN 6 ELSE IF timestamp_count >= 2 THEN 3 ELSE 0)
            + (IF detection THEN 3 ELSE 0)
            + (IF response THEN 2 ELSE 0)
        feedback_parts ==
            (IF has_timeline
             THEN <<"Timeline section present",
                    IF timestamp_count >= 5 THEN "Detailed timeline with multiple timestamps"
                    ELSE IF timestamp_count >= 2 THEN "Basic timeline with some timestamps"
                    ELSE "Timeline lacks sufficient timestamp detail">>
             ELSE <<"Missing dedicated timeline section">>)
            \o <<IF detection THEN "Detection methods described"
                 ELSE "Detection methods not clearly described">>
            \o <<IF response THEN "Response time analysis included"
                 ELSE "Missing response time analysis">>
    IN [score |-> Min(score, 15), feedback |-> Join("; ", feedback_parts)]

_assess_timeline_detection(c) ==
    LET cl == Lower(c)
        has_timeline == In("timeline", cl)
        timestamp_count == CountAll(timestamp_patterns, c)
        detection ==
            AnyIn(<<"alert", "monitor", "detect", "notice", "discover", "pingdom", "datadog",
                    "alarm">>, cl)
        response == AnyIn(<<"time to", "response time", "detection time", "resolution time">>, cl)
        score ==
            (IF has_timeline
             THEN 4 + (IF timestamp_count >= 5 THEN 6 ELSE IF timestamp_count >= 2 THEN 3 ELSE 0)
             ELSE 0)
            + (IF detection THEN 3 ELSE 0)
            + (IF response THEN 2 ELSE 0)
        feedback_parts ==
            (IF has_timeline
             THEN <<"Timeline section present",
                    IF timestamp_count >= 5 THEN "Detailed timeline with multiple timestamps"
                    ELSE IF timestamp_count >= 2 THEN "Basic timeline with some timestamps"
                    ELSE "Timeline lacks sufficient timestamp detail">>
             ELSE <<"Missing dedicated timeline section">>)
            \o <<IF detection THEN "Detection methods described"
                 ELSE "Detection methods not clearly described">>
            \o <<IF response THEN "Response time analysis included"
                 ELSE "Missing response time analysis">>
    IN [score |-> Min(score, 15), feedback |-> Join("; ", feedback_parts)]

\* (?:users?|members?|customers?) and (?:users?|members?)
UserWords3 == Alt(<<Word("user"), Word("member"), Word("customer")>>)
UserWords2 == Alt(<<Word("user"), Word("member")>>)
\* \d+(?:,\d+)*
CommaNumber == D1 \o Star(Lit(",") \o D1)
\* \d+\s+(?:minutes?|hours?)
MinutesOrHours == D1 \o S1 \o Alt(<<Word("minute"), Word("hour")>>)

\* user_impact_patterns of _assess_impact_assessment (re.IGNORECASE)
user_impact_patterns ==
    <<CommaNumber \o S1 \o UserWords3,
      D1 \o Opt(Lit(".") \o D1) \o Lit("%") \o S1 \o Lit("of") \o S1 \o UserWords2,
      Alt(<<Lit("all"), Lit("some"), Lit("many")>>) \o S1 \o UserWords2>>

\* duration_patterns of _assess_impact_assessment (re.IGNORECASE)
impact_duration_patterns ==
    <<D1 \o S1 \o Alt(<<Word("minute"), Word("hour"), Word("min"), Word("hr")>>),
      Lit("from") \o S1 \o D1 \o Lit(":") \o D1 \o Lazy(".", 0, Unbounded)
          \o Lit("to") \o S1 \o D1 \o Lit(":") \o D1,
      Lit("lasted") \o S1 \o Opt(Lit("for") \o S1) \o D1>>

_assess_impact_assessment(c) ==
    LET cl == Lower(c)
        has_impact == In("impact", cl)
        user_impact_found == AnyMatch(user_impact_patterns, cl)
        business ==
            AnyIn(<<"business", "revenue", "sla", "availability", "downtime", "cost">>, cl)
        duration == AnyMatch(impact_duration_patterns, cl)
        score ==
            IF has_impact
            THEN 3 + (IF user_impact_found THEN 5 ELSE 0)
                   + (IF business THEN 4 ELSE 0)
                   + (IF duration THEN 3 ELSE 0)
            ELSE 0
        feedback_parts ==
            IF has_impact
            THEN <<"Impact section present",
                   IF user_impact_found THEN "User impact quantified"
                   ELSE "User impact not quantified",
                   IF business THEN "Business impact addressed"
                   ELSE "Business impact not clearly addressed",
                   IF duration THEN "Impact duration specified"
                   ELSE "Impact duration not clearly specified">>
            ELSE <<"Missing dedicated impact section">>
    IN [score |-> Min(score, 15), feedback |-> Join("; ", feedback_parts)]

\* methodologies of _assess_root_cause_analysis
methodologies == <<"5 whys", "why", "fishbone", "fault tree", "contributing factor">>

\* the points of the structured-methodology loop of _assess_root_cause_analysis:
\* the first methodology of the list that occurs decides, then the loop breaks
MethodologyScore(cl) ==
    LET found == First({k \in 1..Len(methodologies) : In(methodologies[k], cl)})
    IN IF found = 0 THEN 0
       ELSE IF methodologies[found] = "5 whys" \/ Count(cl, "why") >= 3 THEN 8
       ELSE 4

_assess_root_cause_analysis(c) ==
    LET cl == Lower(c)
        has_rca_section ==
            AnyIn(<<"root cause", "why did this happen", "5 whys", "cause analysis">>, cl)
        methodology == MethodologyScore(cl)
        multiple_factors ==
            NumIn(<<"immediate cause", "contributing", "underlying", "secondary", "primary">>, cl)
        technical_depth ==
            NumIn(<<"configuration", "deployment", "code", "database", "server", "api",
                    "network", "timeout", "error", "exception", "log", "monitoring">>, cl)
        blame_count == NumIn(<<"human error", "forgot", "mistake", "careless", "should have">>, cl)
        systems_count == NumIn(<<"process", "system", "automation", "procedure", "design">>, cl)
        systems_focused == systems_count > blame_count /\ systems_count >= 2
        score ==
            IF has_rca_section
            THEN 5 + methodology
                   + (IF multiple_factors >= 3 THEN 6 ELSE IF multiple_factors >= 1 THEN 3 ELSE 0)
                   + (IF technical_depth >= 5 THEN 4 ELSE IF technical_depth >= 2 THEN 2 ELSE 0)
                   + (IF systems_focused THEN 2 ELSE 0)
            ELSE 0
        feedback_parts ==
            IF has_rca_section
            THEN <<"Root cause analysis section present",
                   IF methodology = 8 THEN "Structured methodology (5 Whys) used"
                   ELSE IF methodology = 4 THEN "Some structured approach attempted"
                   ELSE "No clear structured RCA methodology used",
                   IF multiple_factors >= 3 THEN "Multiple contributing factors identified"
                   ELSE IF multiple_factors >= 1 THEN "Some contributing factors identified"
                   ELSE "Limited identification of contributing factors",
                   IF technical_depth >= 5 THEN "Good technical depth in analysis"
                   ELSE IF technical_depth >= 2 THEN "Adequate technical detail"
                   ELSE "Lacks sufficient technical depth">>
                 \o (IF systems_focused THEN <<"Systems-focused approach, avoids blame">>
                     ELSE When(blame_count > 0,
                          "Contains blame-focused language; consider systems approach"))
            ELSE <<"Missing dedicated root cause analysis section">>
    IN [score |-> Min(score, 25), feedback |-> Join("; ", feedback_parts)]

\* the characters re.split(r'[.!?]+', content) splits at
IsStop(ch) == ch \in {".", "!", "?"}

\* the positions where a run of [.!?] starts: the split gives one more sentence than runs
StopRuns(c) == {i \in 1..Len(c) : IsStop(Ch(c, i)) /\ ~IsStop(Ch(c, i - 1))}

\* the positions where a word of s.split() starts
WordStarts(c) ==
    {i \in 1..Len(c) : /\ ~IsSpace(Ch(c, i)) /\ ~IsStop(Ch(c, i))
                       /\ (i = 1 \/ IsSpace(Ch(c, i - 1)) \/ IsStop(Ch(c, i - 1)))}

\* len(sentences) of _assess_communication_clarity
NumSentences(c) == Cardinality(StopRuns(c)) + 1

\* len(long_sentences): the sentences of more than 30 words
NumLongSentences(c) ==
    LET runs == StopRuns(c)
        words == WordStarts(c)
    IN Cardinality({k \in 0..Cardinality(runs) :
           Cardinality({i \in words : Cardinality({r \in runs : r < i}) = k}) > 30})

_assess_communication_clarity(c) ==
    LET cl == Lower(c)
        sections_found ==
            NumIn(<<"summary", "timeline", "impact", "root cause", "action", "lesson">>, cl)
        has_summary == In("summary", cl)
        \* len(long_sentences) < len(sentences) * 0.2
        readable == 5 * NumLongSentences(c) < NumSentences(c)
        score ==
            (IF sections_found >= 5 THEN 4 ELSE IF sections_found >= 3 THEN 2 ELSE 0)
            + (IF has_summary THEN 3 ELSE 0)
            + (IF readable THEN 2 ELSE 0)
            + (IF 1000 <= Len(c) /\ Len(c) <= 8000 THEN 1 ELSE 0)
        feedback_parts ==
            <<IF sections_found >= 5 THEN "Well-structured document with clear sections"
              ELSE IF sections_found >= 3 THEN "Adequate document structure"
              ELSE "Poor document structure, missing key sections",
              IF has_summary THEN "Executive summary present" ELSE "Missing executive summary",
              IF readable THEN "Good readability with appropriate sentence length"
              ELSE "Some sentences are too long, affecting readability",
              IF 1000 <= Len(c) /\ Len(c) <= 8000 THEN "Appropriate level of detail"
              ELSE IF Len(c) < 1000 THEN "Document may be too brief"
              ELSE "Document may be too verbose">>
    IN [score |-> Min(score, 10), feedback |-> Join("; ", feedback_parts)]

\* action_patterns of _assess_action_items_prevention (re.IGNORECASE)
action_patterns ==
    <<Alt(<<Lit("will"), Lit("should"), Lit("must"), Lit("need to")>>) \o S1
          \o Rep("w", 1, Unbounded),
      Lit("by") \o S1 \o Dn(4) \o Lit("-") \o Dn(2) \o Lit("-") \o Dn(2),
      Alt(<<Lit("assigned to"), Lit("owner:"), Lit("responsible:")>>)>>

_assess_action_items_prevention(c) ==
    LET cl == Lower(c)
        has_action_section ==
            AnyIn(<<"action item", "next step", "remediation", "fix", "follow up", "todo">>, cl)
        actionable_count == CountAll(action_patterns, cl)
        prevention_count ==
            NumIn(<<"prevent", "avoid", "monitor", "alert", "automation", "process",
                    "procedure", "documentation", "training", "review">>, cl)
        prioritized ==
            AnyIn(<<"priority", "critical", "high", "medium", "low", "risk", "important">>, cl)
        timed == AnyIn(<<"deadline", "by", "within", "week", "month", "sprint">>, cl)
        score ==
            IF has_action_section
            THEN 4 + (IF actionable_count >= 5 THEN 6 ELSE IF actionable_count >= 2 THEN 3 ELSE 0)
                   + (IF prevention_count >= 4 THEN 6 ELSE IF prevention_count >= 2 THEN 3 ELSE 0)
                   + (IF prioritized THEN 2 ELSE 0)
                   + (IF timed THEN 2 ELSE 0)
            ELSE 0
        feedback_parts ==
            IF has_action_section
            THEN <<"Action items section present",
                   IF actionable_count >= 5 THEN "Specific, actionable items with ownership"
                   ELSE IF actionable_count >= 2 THEN "Some actionable items present"
                   ELSE "Action items lack specificity or ownership",
                   IF prevention_count >= 4 THEN "Strong prevention focus in action items"
                   ELSE IF prevention_count >= 2 THEN "Some prevention-focused actions"
                   ELSE "Action items focus mainly on fixing, not prevention",
                   IF prioritized THEN "Action items show prioritization"
                   ELSE "Action items lack clear prioritization",
                   IF timed THEN "Timelines specified for actions"
                   ELSE "Missing timelines for action items">>
            ELSE <<"Missing action items section">>
    IN [score |-> Min(score, 20), feedback |-> Join("; ", feedback_parts)]

\* required_sections of _assess_process_adherence
required_sections == <<"summary", "timeline", "impact", "cause", "action">>

_assess_process_adherence(c) ==
    LET cl == Lower(c)
        sections_present == NumIn(required_sections, cl)
        classified ==
            AnyIn(<<"severity", "priority", "p1", "p2", "p3", "p4", "critical", "major",
                    "minor">>, cl)
        completeness_count == NumIn(<<"author", "date", "reviewed", "approved">>, cl)
        score ==
            Min(sections_present * 2, 8)
            + (IF classified THEN 1 ELSE 0)
            + (IF completeness_count >= 2 THEN 1 ELSE 0)
        feedback_parts ==
            <<IF sections_present >= 4 THEN "Follows structured RCA format"
              ELSE "Missing key sections (" \o ToString(5 - sections_present)
                   \o " sections missing)",
              IF classified THEN "Incident severity/priority classified"
              ELSE "Missing incident severity classification",
              IF completeness_count >= 2
              THEN "Shows process completeness (author, dates, review)"
              ELSE "Missing process completion indicators">>
    IN [score |-> Min(score, 10), feedback |-> Join("; ", feedback_parts)]

_assess_learning_knowledge_sharing(c) ==
    LET cl == Lower(c)
        lessons == AnyIn(<<"lesson", "learn", "takeaway", "insight">>, cl)
        broad == AnyIn(<<"team", "organization", "similar", "pattern", "trend", "future">>, cl)
        knowledge ==
            AnyIn(<<"document", "share", "communicate", "training", "wiki", "runbook">>, cl)
        score ==
            (IF lessons THEN 2 ELSE 0) + (IF broad THEN 2 ELSE 0) + (IF knowledge THEN 1 ELSE 0)
        feedback_parts ==
            <<IF lessons THEN "Lessons learned section present"
              ELSE "Missing explicit lessons learned",
              IF broad THEN "Shows broader organizational learning value"
              ELSE "Limited broader learning insights",
              IF knowledge THEN "Includes knowledge transfer elements"
              ELSE "Missing knowledge transfer considerations">>
    IN [score |-> Min(score, 5), feedback |-> Join("; ", feedback_parts)]

(***************************************************************************)
(* rca_quality_analyzer.py: strengths and gaps of each dimension           *)
(***************************************************************************)

\* [s for s in sections if s not in content.lower()]
Missing(sections, cl) == SelectSeq(sections, LAMBDA s : ~In(s, cl))

\* the section lists of the communication and process helpers
standard_sections == <<"summary", "timeline", "impact", "cause", "action">>
body_sections == <<"timeline", "impact", "cause", "action">>

_extract_timeline_strengths(c) ==
    LET cl == Lower(c)
    IN When(Search(IsoTimestamp, c).ok, "Detailed timestamps provided")
       \o When(In("timeline", cl), "Dedicated timeline section")
       \o When(AnyIn(<<"alert", "monitor", "detect">>, cl), "Detection methods described")

_extract_timeline_gaps(c, score) ==
    LET cl == Lower(c)
    IN IF score < 8
       THEN When(~In("timeline", cl), "Missing dedicated timeline section")
            \o When(~Search(D1 \o Lit(":") \o D1, c).ok, "Lacks specific timestamps")
            \o When(~AnyIn(<<"detect", "alert", "monitor">>, cl),
                    "Detection methods not described")
       ELSE <<>>

_extract_impact_strengths(c) ==
    LET cl == Lower(c)
    IN When(Search(CommaNumber \o S1 \o UserWords2, cl).ok,
            "User impact quantified with numbers")
       \o When(AnyIn(<<"business", "revenue", "sla">>, cl), "Business impact addressed")
       \o When(Search(MinutesOrHours, cl).ok, "Impact duration specified")

_extract_impact_gaps(c, score) ==
    LET cl == Lower(c)
    IN IF score < 8
       THEN When(~Search(D1 \o Rep(".", 0, Unbounded) \o UserWords2, cl).ok,
                 "User impact not quantified")
            \o When(~AnyIn(<<"business", "revenue", "cost">>, cl),
                    "Business impact not addressed")
            \o When(~Search(MinutesOrHours, cl).ok, "Impact duration not specified")
       ELSE <<>>

_extract_rca_strengths(c) ==
    LET cl == Lower(c)
    IN When(In("5 whys", cl) \/ Count(cl, "why") >= 3, "Uses structured 5 Whys methodology")
       \o When(AnyIn(<<"contributing", "immediate", "underlying">>, cl),
               "Identifies multiple contributing factors")
       \o When(NumIn(<<"process", "system", "automation", "design">>, cl) >= 2,
               "Systems-focused approach, avoids blame")

_extract_rca_gaps(c, score) ==
    LET cl == Lower(c)
    IN IF score < 15
       THEN When(~In("root cause", cl), "Missing dedicated root cause section")
            \o When(Count(cl, "why") < 2,
                    "No evidence of structured RCA methodology (e.g., 5 Whys)")
            \o When(AnyIn(<<"human error", "forgot", "mistake", "should have">>, cl),
                    "Contains blame-focused language instead of systems thinking")
            \o When(~AnyIn(<<"contributing", "immediate">>, cl),
                    "Limited identification of contributing factors")
       ELSE <<>>

_extract_communication_strengths(c) ==
    LET cl == Lower(c)
    IN When(NumIn(standard_sections, cl) >= 4, "Well-structured with clear sections")
       \o When(In("summary", cl), "Includes executive summary")
       \o When(1000 <= Len(c) /\ Len(c) <= 6000, "Appropriate level of detail")

_extract_communication_gaps(c, score) ==
    LET cl == Lower(c)
        missing_sections == Missing(body_sections, cl)
    IN IF score < 6
       THEN When(~In("summary", cl), "Missing executive summary")
            \o When(missing_sections # <<>>,
                    "Missing key sections: " \o Join(", ", missing_sections))
            \o When(Len(c) < 500, "Document too brief, lacks sufficient detail")
       ELSE <<>>

_extract_action_strengths(c) ==
    LET cl == Lower(c)
    IN When(AnyIn(<<"action", "remediation", "fix">>, cl), "Includes action items section")
       \o When(AnyIn(<<"prevent", "monitor", "automation">>, cl),
               "Prevention-focused actions identified")
       \o When(AnyIn(<<"owner", "assigned", "responsible">>, cl),
               "Action items have clear ownership")

_extract_action_gaps(c, score) ==
    LET cl == Lower(c)
    IN IF score < 12
       THEN When(~AnyIn(<<"action", "remediation", "next">>, cl), "Missing action items section")
            \o When(~AnyIn(<<"prevent", "avoid", "monitor">>, cl),
                    "Actions focus on fixing rather than prevention")
            \o When(~AnyIn(<<"owner", "deadline", "by">>, cl),
                    "Action items lack ownership or timelines")
       ELSE <<>>

_extract_process_strengths(c) ==
    LET cl == Lower(c)
    IN When(NumIn(standard_sections, cl) >= 4, "Follows structured RCA format")
       \o When(AnyIn(<<"p1", "p2", "severity", "priority">>, cl),
               "Includes incident classification")

_extract_process_gaps(c, score) ==
    LET cl == Lower(c)
        missing == Missing(body_sections, cl)
    IN IF score < 6
       THEN When(missing # <<>>, "Missing standard sections: " \o Join(", ", missing))
            \o When(~AnyIn(<<"severity", "priority">>, cl),
                    "Missing incident severity classification")
       ELSE <<>>

_extract_learning_strengths(c) ==
    LET cl == Lower(c)
    IN When(AnyIn(<<"lesson", "learn", "takeaway">>, cl), "Includes lessons learned")
       \o When(AnyIn(<<"team", "organization", "similar">>, cl),
               "Shows broader organizational value")

_extract_learning_gaps(c, score) ==
    LET cl == Lower(c)
    IN IF score < 3
       THEN When(~AnyIn(<<"lesson", "learn">>, cl), "Missing lessons learned section")
            \o When(~AnyIn(<<"team", "similar", "future">>, cl),
                    "Limited broader learning insights")
       ELSE <<>>

(***************************************************************************)
(* rca_quality_analyzer.py: the assessment                                 *)
(***************************************************************************)

\* one entry of the assessment dict of _perform_expert_llm_analysis
Entry(key, max_points, assessed, strengths, gaps) ==
    [key |-> key, score |-> assessed.score, max_points |-> max_points,
     feedback |-> assessed.feedback, strengths |-> strengths, gaps |-> gaps]

\* _perform_expert_llm_analysis(prompt, content, ticket_key): the assessment dict, in the
\* order its keys are inserted
_perform_expert_llm_analysis(c) ==
    LET timeline == _assess_timeline_detection(c)
        impact == _assess_impact_assessment(c)
        rca == _assess_root_cause_analysis(c)
        comm == _assess_communication_clarity(c)
        action == _assess_action_items_prevention(c)
        process == _assess_process_adherence(c)
        learning == _assess_learning_knowledge_sharing(c)
    IN <<Entry("timeline_detection", 15, timeline, _extract_timeline_strengths(c),
               _extract_timeline_gaps(c, timeline.score)),
         Entry("impact_assessment", 15, impact, _extract_impact_strengths(c),
               _extract_impact_gaps(c, impact.score)),
         Entry("root_cause_analysis", 25, rca, _extract_rca_strengths(c),
               _extract_rca_gaps(c, rca.score)),
         Entry("communication_clarity", 10, comm, _extract_communication_strengths(c),
               _extract_communication_gaps(c, comm.score)),
         Entry("action_items_prevention", 20, action, _extract_action_strengths(c),
               _extract_action_gaps(c, action.score)),
         Entry("process_adherence", 10, process, _extract_process_strengths(c),
               _extract_process_gaps(c, process.score)),
         Entry("learning_knowledge_sharing", 5, learning, _extract_learning_strengths(c),
               _extract_learning_gaps(c, learning.score))>>

\* dim_name.replace('_', ' ').title()
Title(s) == StrTitle(Replace(s, "_", " "))

\* self.grade_boundaries, in the dict's insertion order
grade_boundaries ==
    <<[threshold |-> 90, grade |-> "A"],
      [threshold |-> 80, grade |-> "B"],
      [threshold |-> 70, grade |-> "C"],
      [threshold |-> 60, grade |-> "D"],
      [threshold |-> 0, grade |-> "F"]>>

\* the comparison of _calculate_grade that lets a total just below a threshold pass
GradeOffByOne(total) ==
    LET met == First({k \in 1..Len(grade_boundaries) :
                         total + 1 >= grade_boundaries[k].threshold})
    IN IF met = 0 THEN "F" ELSE grade_boundaries[met].grade

_calculate_grade(total) ==
    LET met == First({k \in 1..Len(grade_boundaries) :
                         total >= grade_boundaries[k].threshold})
    IN IF met = 0 THEN "F" ELSE grade_boundaries[met].grade

_generate_overall_feedback(total, letter) ==
    LET of100 == " (" \o ToString(total) \o "/100) "
    IN IF letter = "A"
       THEN "Exemplary RCA" \o of100 \o "that demonstrates engineering excellence and should serve as a template for future incident analysis."
       ELSE IF letter = "B"
       THEN "Good quality RCA" \o of100 \o "with strong foundation and only minor improvements needed."
       ELSE IF letter = "C"
       THEN "Adequate RCA" \o of100 \o "that covers basics but has several areas for improvement to reach best practices."
       ELSE IF letter = "D"
       THEN "Poor quality RCA" \o of100 \o "with significant gaps that undermine its effectiveness for learning and prevention."
       ELSE "Inadequate RCA" \o of100 \o "that fails to meet basic incident analysis standards and requires major revision."

\* [f"{prefix}: {x}" for x in q]
Prefixed(prefix, q) == [k \in 1..Len(q) |-> prefix \o ": " \o q[k]] \o <<>>

_extract_top_strengths(dims) ==
    Take(Flatten([k \in 1..Len(dims) |-> Prefixed(dims[k].name, dims[k].strengths)] \o <<>>), 3)

_extract_critical_gaps(dims) ==
    LET rca == First({k \in 1..Len(dims) : In("root cause", Lower(dims[k].name))})
        rca_gaps == IF rca # 0 /\ dims[rca].gaps # <<>>
                    THEN Prefixed("Root Cause Analysis", Take(dims[rca].gaps, 2))
                    ELSE <<>>
        \* dim.score < dim.max_points * 0.6
        other(d) == IF Lower(d.name) # "root cause analysis" /\ 5 * d.score < 3 * d.max_points
                    THEN Prefixed(d.name, Take(d.gaps, 1))
                    ELSE <<>>
    IN Take(rca_gaps \o Flatten([k \in 1..Len(dims) |-> other(dims[k])] \o <<>>), 5)

\* min(dimensions, key=lambda d: d.score / d.max_points): the first dimension of the
\* lowest ratio
LowestScoring(dims) ==
    dims[First({k \in 1..Len(dims) :
                   \A j \in 1..Len(dims) :
                       dims[k].score * dims[j].max_points <= dims[j].score * dims[k].max_points})]

\* _generate_improvement_recommendations without the 70% test of the lowest dimension
RecommendationsAlwaysTargeted(dims, letter) ==
    LET generic ==
            IF letter \in {"D", "F"}
            THEN <<"Focus on structured RCA methodology - implement 5 Whys or fishbone analysis",
                   "Add dedicated sections: Timeline, Impact, Root Cause, Action Items",
                   "Quantify user and business impact with specific numbers">>
            ELSE IF letter = "C"
            THEN <<"Deepen root cause analysis - go beyond immediate causes to underlying factors",
                   "Add prevention-focused action items with clear ownership and timelines",
                   "Include lessons learned section for broader organizational value">>
            ELSE IF letter = "B"
            THEN <<"Enhance technical depth in root cause analysis",
                   "Strengthen prevention focus in action items",
                   "Consider adding executive summary for leadership communication">>
            ELSE <<>>
        lowest_scoring_dim == LowestScoring(dims)
        targeted ==
            When(TRUE,
                 "Priority improvement area: " \o lowest_scoring_dim.name \o " - "
                 \o (IF lowest_scoring_dim.gaps # <<>> THEN lowest_scoring_dim.gaps[1]
                     ELSE "needs attention"))
    IN Take(generic \o targeted, 5)

_generate_improvement_recommendations(dims, letter) ==
    LET generic ==
            IF letter \in {"D", "F"}
            THEN <<"Focus on structured RCA methodology - implement 5 Whys or fishbone analysis",
                   "Add dedicated sections: Timeline, Impact, Root Cause, Action Items",
                   "Quantify user and business impact with specific numbers">>
            ELSE IF letter = "C"
            THEN <<"Deepen root cause analysis - go beyond immediate causes to underlying factors",
                   "Add prevention-focused action items with clear ownership and timelines",
                   "Include lessons learned section for broader organizational value">>
            ELSE IF letter = "B"
            THEN <<"Enhance technical depth in root cause analysis",
                   "Strengthen prevention focus in action items",
                   "Consider adding executive summary for leadership communication">>
            ELSE <<>>
        lowest_scoring_dim == LowestScoring(dims)
        \* lowest_scoring_dim.score < lowest_scoring_dim.max_points * 0.7
        targeted ==
            When(10 * lowest_scoring_dim.score < 7 * lowest_scoring_dim.max_points,
                 "Priority improvement area: " \o lowest_scoring_dim.name \o " - "
                 \o (IF lowest_scoring_dim.gaps # <<>> THEN lowest_scoring_dim.gaps[1]
                     ELSE "needs attention"))
    IN Take(generic \o targeted, 5)

_assess_confidence(analysis, total) ==
    LET content_indicators == Cardinality({k \in 1..Len(analysis) : analysis[k].score > 0})
    IN IF content_indicators >= 6 /\ total > 40 THEN "High"
       ELSE IF content_indicators >= 4 /\ total > 20 THEN "Medium"
       ELSE "Low"

\* the QualityDimension objects _process_expert_analysis builds, in the order of the dict
DimensionsOf(analysis) ==
    [k \in 1..Len(analysis) |->
        [name |-> Title(analysis[k].key),
         max_points |-> analysis[k].max_points,
         score |-> analysis[k].score,
         feedback |-> analysis[k].feedback,
         strengths |-> analysis[k].strengths,
         gaps |-> analysis[k].gaps]] \o <<>>

\* a total that leaves the last dimension out
TotalWithoutLast(analysis) ==
    SumSeq([k \in 1..(Len(analysis) - 1) |-> analysis[k].score] \o <<>>)

\* total_score of _process_expert_analysis: the scores added up in the loop
TotalOf(analysis) == SumSeq([k \in 1..Len(analysis) |-> analysis[k].score] \o <<>>)

_process_expert_analysis(analysis, ticket_key) ==
    LET dims == DimensionsOf(analysis)
        total == TotalOf(analysis)
        letter == _calculate_grade(total)
    IN [ticket_key |-> ticket_key,
        total_score |-> total,
        grade |-> letter,
        dimensions |-> dims,
        overall_feedback |-> _generate_overall_feedback(total, letter),
        top_strengths |-> _extract_top_strengths(dims),
        critical_gaps |-> _extract_critical_gaps(dims),
        improvement_recommendations |-> _generate_improvement_recommendations(dims, letter),
        assessment_confidence |-> _assess_confidence(analysis, total)]

_create_fallback_assessment(ticket_key, error_message) ==
    [ticket_key |-> ticket_key,
     total_score |-> 0,
     grade |-> "F",
     dimensions |->
         <<[name |-> "Analysis Failed", max_points |-> 100, score |-> 0,
            feedback |-> "Quality assessment failed: " \o error_message,
            strengths |-> <<>>,
            gaps |-> <<"Unable to assess RCA quality due to analysis failure">>]>>,
     overall_feedback |-> "RCA quality assessment failed for " \o ticket_key,
     top_strengths |-> <<>>,
     critical_gaps |-> <<"Analysis system failure">>,
     improvement_recommendations |-> <<"Retry quality assessment with valid RCA content">>,
     assessment_confidence |-> "Low"]

\* the steps of the try block of analyze_rca_quality, either of which may raise
QualitySteps == {"_get_expert_evaluation", "_process_expert_analysis"}

\* _get_expert_evaluation(content, ticket_key): the prompt it builds is not used by the
\* analysis, which assesses the whole content
_get_expert_evaluation(c) == _perform_expert_llm_analysis(c)

\* analyze_rca_quality(content, ticket_key); flt: the step that raises, "none" when none does
analyze_rca_quality(c, ticket_key, flt) ==
    IF flt \in QualitySteps THEN _create_fallback_assessment(ticket_key, flt)
    ELSE _process_expert_analysis(_get_expert_evaluation(c), ticket_key)

(***************************************************************************)
(* rca_analyzer.py: the extraction of _simulate_sequential_analysis.  The  *)
(* patterns compiled with (?i) or re.IGNORECASE are written in lower case  *)
(* and matched against the lower-cased text; the groups are read from the  *)
(* text itself.                                                            *)
(***************************************************************************)

AnyLazy0 == Lazy("any", 0, Unbounded)                     \* .*? with re.DOTALL
AnyLazy1 == Lazy("any", 1, Unbounded)                     \* .+? with re.DOTALL
Dot0 == Rep(".", 0, Unbounded)                            \* .*
DotLazy0 == Lazy(".", 0, Unbounded)                       \* .*?
DotLazy1 == Lazy(".", 1, Unbounded)                       \* .+?
ColonSpace0 == Rep("[:\\s]", 0, Unbounded)                \* [:\s]*
ColonSpace1 == Rep("[:\\s]", 1, Unbounded)                \* [:\s]+
Letters0 == Rep("[a-zA-Z\\s]", 0, Unbounded)              \* [a-zA-Z\s]*
Letters1 == Rep("[a-zA-Z\\s]", 1, Unbounded)              \* [a-zA-Z\s]+
One(cls) == Rep(cls, 1, 1)
\* a sequence of words separated by \s+
Words(ws) == IF Len(ws) = 1 THEN Lit(ws[1])
             ELSE Lit(ws[1]) \o S1 \o (IF Len(ws) = 2 THEN Lit(ws[2])
                                        ELSE Lit(ws[2]) \o S1 \o Lit(ws[3]))
\* (?:w1|w2|...) of literal alternatives
Lits(ws) == Alt([k \in 1..Len(ws) |-> Lit(ws[k])] \o <<>>)

\* exec(?:utive)?\s+summary
ExecSummary == Lit("exec") \o Opt(Lit("utive")) \o S1 \o Lit("summary")
\* client\s+facing\s+summary[:\s]*(?:\([^)]*\))?\s*
ClientFacingSummary ==
    Words(<<"client", "facing", "summary">>) \o ColonSpace0
        \o Opt(Lit("(") \o Rep("[^)]", 0, Unbounded) \o Lit(")")) \o S0
\* (?:members?|users?|customers?) and (?:members?|users?)
MembersUsersCustomers == Alt(<<Word("member"), Word("user"), Word("customer")>>)
MembersUsers == Alt(<<Word("member"), Word("user")>>)
\* (\d+(?:,\d+)*) as group 1
Number == Cap(1, D1 \o Star(Lit(",") \o D1))

\* exec_patterns of _llm_extract_summary (re.DOTALL)
exec_patterns ==
    <<ExecSummary \o ColonSpace0 \o Cap(1, AnyLazy1)
          \o Look(Alt(<<Lit("impact"), Lit("timeline"), Words(<<"root", "cause">>),
                        Words(<<"customer", "impact">>)>>)),
      ClientFacingSummary \o ColonSpace0 \o Cap(1, AnyLazy1)
          \o Look(Lits(<<"exec", "impact", "timeline">>))>>

\* note:|fill.*out|delete.*instruction
InstructionText ==
    Alt(<<Lit("note:"), Lit("fill") \o Dot0 \o Lit("out"),
          Lit("delete") \o Dot0 \o Lit("instruction")>>)
\* note:|instruction|fill.*out
InstructionWord ==
    Alt(<<Lit("note:"), Lit("instruction"), Lit("fill") \o Dot0 \o Lit("out")>>)

\* [f(x) for x in q]
CleanedEach(q) == [k \in 1..Len(q) |-> Collapse(Strip(q[k]))] \o <<>>

\* result += '.' unless result ends with one
WithFullStop(result) == IF EndsWith(result, ".") THEN result ELSE result \o "."

\* the meaningful sentences of the text a summary pattern matched
MeaningfulSentences(summary_text) ==
    SelectSeq(CleanedEach(SplitSentences(summary_text)),
              LAMBDA cleaned : /\ Len(cleaned) > 20
                               /\ ~Search(InstructionText, Lower(cleaned)).ok
                               /\ ~StartsWith(cleaned, "("))

\* the text of group 1 of the first match of q in c (None: no match)
Group1(q, c) == Let(Search(q, Lower(c)), LAMBDA m : IF m.ok THEN Group(c, m, 1) ELSE None)

DefaultSummary(ticket_key) ==
    "Incident " \o ticket_key
        \o " occurred with system impact requiring investigation and resolution."

_llm_extract_summary(c, ticket_key) ==
    LET meaningful(q) ==
            Let(Group1(q, c), LAMBDA summary_text :
                IF summary_text = None THEN <<>>
                ELSE MeaningfulSentences(Strip(summary_text)))
        incident_keywords ==
            <<"outage", "down", "failed", "maintenance", "issue", "error", "unavailable">>
    IN Let(FirstResult(exec_patterns, meaningful), LAMBDA meaningful_sentences :
       Let(SplitSentences(c), LAMBDA sentences :
       Let(First({k \in 1..Len(sentences) :
                     /\ Len(Strip(sentences[k])) > 30
                     /\ AnyIn(incident_keywords, Lower(sentences[k]))
                     /\ ~Search(InstructionWord, Lower(Collapse(Strip(sentences[k])))).ok}),
           LAMBDA sentence :
           IF meaningful_sentences # <<>>
           THEN WithFullStop(Join(". ", Take(meaningful_sentences, 2)))
           ELSE IF sentence # 0 THEN Collapse(Strip(sentences[sentence])) \o "."
           ELSE DefaultSummary(ticket_key))))

\* user_patterns of _llm_extract_user_impact (re.IGNORECASE)
user_patterns ==
    <<Number \o S1 \o Cap(2, Letters0 \o Opt(Lit("onboarding") \o S1) \o MembersUsersCustomers),
      Lits(<<"predicted", "estimated">>) \o S1 \o Lit("impact") \o S1 \o Lit("of") \o S1
          \o Number \o S1 \o Cap(2, Letters0 \o MembersUsersCustomers),
      Number \o S1 \o Cap(2, Letters1) \o S1 \o Lits(<<"affected", "impacted">>)>>

\* the f"{number} {user_type}" of every match of every pattern, in the order of the loops
NumberedUsers(patterns, impact_text) ==
    LET user_type(m) == Strip(Group(impact_text, m, 2))
        of(q) == Each(SelectSeq(FindIter(q, Lower(impact_text), 1),
                                LAMBDA m : user_type(m) # ""),
                      LAMBDA m : Group(impact_text, m, 1) \o " " \o user_type(m))
    IN Flatten(Each(patterns, of))

\* (\d{4}-\d{2}-\d{2}\s+\d{1,2}:\d{2}\s+PST), case-sensitive
time_pattern == Cap(1, IsoTimestamp \o S1 \o Lit("PST"))

_llm_extract_user_impact(c) ==
    LET failedWords == Lits(<<"down", "unavailable", "failed">>)
    IN Let(Group1(Words(<<"customer", "impact">>) \o ColonSpace0 \o Cap(1, AnyLazy1)
                      \o Look(Alt(<<Lit("source"), Lit("security"),
                                    Words(<<"business", "impact">>), Lit("timeline")>>)), c),
           LAMBDA impact_text :
       Let(Group1(Lit("timeline") \o AnyLazy0
                      \o Cap(1, Dn(4) \o Lit("-") \o Dn(2) \o Lit("-") \o Dn(2) \o AnyLazy0
                                \o Lit("pst") \o AnyLazy0)
                      \o Look(Alt(<<Words(<<"root", "cause">>), Words(<<"5", "whys">>),
                                    Lit("architectural")>>)), c),
           LAMBDA timeline_text :
       Let(IF timeline_text = None THEN <<>>
           ELSE FindAll(time_pattern, timeline_text, timeline_text),
           LAMBDA times :
       Let((IF impact_text = None THEN <<>>
            ELSE NumberedUsers(user_patterns, Strip(impact_text)))
           \o When(Len(times) >= 2,
                   "Duration: From " \o times[1] \o " to incident resolution")
           \o When(Search(Word("endpoint") \o Dot0 \o failedWords, Lower(c)).ok,
                   "Services: Production endpoints affected")
           \o When(Search(Lit("onboarding") \o Dot0 \o failedWords, Lower(c)).ok,
                   "Services: Onboarding services impacted"),
           LAMBDA impact_details :
           IF impact_details # <<>> THEN Join("; ", Unique(impact_details))
           ELSE "User impact details not clearly specified in RCA document"))))

\* (?:^|\n)\s*[-*]\s*(.+?)(?=\n|$) and (?:^|\n)\s*\d+[.)]\s*(.+?)(?=\n|$) with
\* re.MULTILINE; the first class also holds the bullet U+2022, which no text here has
list_patterns ==
    <<Alt(<<Bol, Lit("\n")>>) \o S0 \o One("[-*]") \o S0 \o Cap(1, DotLazy1)
          \o Look(Alt(<<Lit("\n"), Eol>>)),
      Alt(<<Bol, Lit("\n")>>) \o S0 \o D1 \o One("[.)]") \o S0 \o Cap(1, DotLazy1)
          \o Look(Alt(<<Lit("\n"), Eol>>))>>

\* the items of the first list pattern that matches text (<<>>: neither matches)
ListItems(text) == FirstResult(list_patterns, LAMBDA q : FindAll(q, text, text))

_parse_causal_text(text) ==
    Let(ListItems(text), LAMBDA matches :
        IF matches # <<>>
        THEN SelectSeq(CleanedEach(matches), LAMBDA cleaned : Len(cleaned) > 15)
        ELSE Take(SelectSeq(CleanedEach(SplitClauses(text)),
                            LAMBDA cleaned : 15 < Len(cleaned) /\ Len(cleaned) < 150), 3))

\* (.+?)(?=[.;]|$)
Clause == Cap(1, DotLazy1) \o Look(Alt(<<One("[.;]"), Eos>>))

\* causal_patterns of _extract_causal_relationships
causal_patterns ==
    <<Words(<<"due", "to">>) \o S1 \o Clause,
      Lit("because") \o S1 \o Opt(Lit("of") \o S1) \o Clause,
      Words(<<"caused", "by">>) \o S1 \o Clause,
      Words(<<"as", "a", "result">>) \o S1 \o Lit("of") \o S1 \o Clause,
      Words(<<"resulted", "in">>) \o S1 \o Clause>>

_extract_causal_relationships(text) ==
    LET of(q) == SelectSeq(Each(FindAll(q, Lower(text), text),
                                LAMBDA match : Collapse(RStrip(Strip(match), ","))),
                           LAMBDA cleaned : 10 < Len(cleaned) /\ Len(cleaned) < 100)
    IN Flatten(Each(causal_patterns, of))

\* root_cause_patterns of _llm_extract_root_causes (re.DOTALL)
llm_root_cause_patterns ==
    <<Words(<<"root", "cause", "analysis">>) \o Cap(1, AnyLazy1)
          \o Look(Alt(<<Words(<<"lessons", "learned">>), Words(<<"action", "items">>),
                        Words(<<"post", "mortem">>)>>)),
      Words(<<"immediate", "cause">>) \o ColonSpace0 \o Cap(1, AnyLazy1)
          \o Look(Lits(<<"contributing", "underlying", "lessons">>)),
      Lit("underlying") \o S1 \o Word("cause") \o ColonSpace0 \o Cap(1, AnyLazy1)
          \o Look(Lits(<<"lessons", "action", "technical">>))>>

\* technical_indicators of _llm_extract_root_causes
technical_indicators ==
    <<[pattern |-> Lit("f5") \o Dot0
                      \o Alt(<<Lit("maintenance"),
                               Lit("emergency") \o Dot0 \o Lit("maintenance"), Lit("outage")>>),
       description |-> "Third-party WAF provider emergency maintenance"],
      [pattern |-> Opt(Lit("regional") \o S1) \o Word("pop") \o Dot0
                      \o Lits(<<"down", "failed", "outage">>),
       description |-> "WAF regional point-of-presence failures"],
      [pattern |-> Lit("database") \o Dot0 \o Lits(<<"connection", "timeout", "failed">>),
       description |-> "Database connectivity issues"],
      [pattern |-> Lit("deployment") \o Dot0 \o Lits(<<"failed", "error">>),
       description |-> "Deployment failure"],
      [pattern |-> Lit("configuration") \o Dot0 \o Lits(<<"error", "wrong", "incorrect">>),
       description |-> "Configuration error"],
      [pattern |-> Lit("vendor") \o Dot0 \o Lits(<<"notification", "communication">>),
       description |-> "Inadequate vendor communication"]>>

\* the descriptions of the indicators found in c that causes does not hold yet
Indicated(indicators, c, causes) ==
    Each(SelectSeq(indicators,
                   LAMBDA x : /\ Search(x.pattern, Lower(c)).ok
                              /\ \A k \in 1..Len(causes) : causes[k] # x.description),
         LAMBDA x : x.description)

\* re.sub(q, '', s).strip()
\* re.sub(q, '', s), and the same for a pattern compiled with (?i)
Deleted(q, s) == Sub(q, s, s, "")
DeletedIgnoringCase(q, s) == Sub(q, Lower(s), s, "")

Without(q, s) == Strip(Deleted(q, s))

\* the cause without the section header it starts with
WithoutHeader(cause) ==
    Without(Bos \o Lits(<<"Major Problems", "Immediate Cause", "Contributing Factors",
                          "Technical Infrastructure">>) \o ColonSpace0,
            \* re.sub(r'^[A-Z][a-z\s]+:', '', cleaned).strip()
            Without(Bos \o One("[A-Z]") \o Rep("[a-z\\s]", 1, Unbounded) \o Lit(":"),
                    Collapse(Strip(cause))))

_llm_extract_root_causes(c) ==
    LET of(q) == Let(Group1(q, c), LAMBDA cause_text :
                     IF cause_text = None THEN <<>> ELSE _parse_causal_text(Strip(cause_text)))
    IN Let(Flatten(Each(llm_root_cause_patterns, of)), LAMBDA sections :
       Let(Group1(ExecSummary \o ColonSpace0 \o Cap(1, AnyLazy1)
                      \o Look(Lits(<<"impact", "timeline">>)), c),
           LAMBDA summary_text :
       Let(sections \o (IF sections = <<>> /\ summary_text # None
                        THEN _extract_causal_relationships(Strip(summary_text))
                        ELSE <<>>),
           LAMBDA causes :
       Let(UniqueIgnoringCase(
               SelectSeq(Each(causes \o Indicated(technical_indicators, c, causes),
                              WithoutHeader),
                         LAMBDA cleaned : Len(cleaned) > 10)),
           LAMBDA unique_causes :
           IF unique_causes # <<>> THEN Take(unique_causes, 5)
           ELSE <<"Root cause analysis pending or not clearly documented">>))))

\* _simulate_sequential_analysis(content, ticket_key)
_simulate_sequential_analysis(c, ticket_key) ==
    [incident_summary |-> _llm_extract_summary(c, ticket_key),
     users_impacted |-> _llm_extract_user_impact(c),
     root_causes |-> _llm_extract_root_causes(c)]

(***************************************************************************)
(* rca_analyzer.py: the pattern extraction of the fallback paths           *)
(***************************************************************************)

\* match.group(0) read from the text tx
Whole(tx, m) == SubSeq(tx, m.start, m.end - 1)

\* \n[A-Z][a-zA-Z\s]*: under (?i), where [A-Z] is any letter
SectionHeader == Lit("\n") \o One("[a-zA-Z]") \o Letters0 \o Lit(":")
\* \n[A-Z][a-z]+: under (?i)
ShortHeader == One("[a-zA-Z]") \o Rep("[a-zA-Z]", 1, Unbounded) \o Lit(":")
\* (?:\([^)]*\))?
Parenthesis == Opt(Lit("(") \o Rep("[^)]", 0, Unbounded) \o Lit(")"))
\* (?:were\s+)? and (?:onboarding\s+)?
WereOpt == Opt(Lit("were") \o S1)
OnboardingOpt == Opt(Lit("onboarding") \o S1)
AffectedImpacted == Lits(<<"affected", "impacted">>)

RECURSIVE Permuted(_, _)
\* the permutation of q that seed selects
Permuted(q, seed) ==
    IF Len(q) <= 1 THEN q
    ELSE LET k == (seed % Len(q)) + 1
         IN <<q[k]>> \o Permuted(SubSeq(q, 1, k - 1) \o SubSeq(q, k + 1, Len(q)),
                                 seed \div Len(q))

\* the elements of set(q) in the order of iteration: the order of a set of str
\* follows their hashes, which the interpreter salts once per process
SetOrder(q, seed) == Permuted(Unique(q), seed)

RECURSIVE FittingFrom(_, _, _, _)
\* how many leading texts of q are taken before the running length reaches limit
FittingFrom(q, k, total, limit) ==
    IF k > Len(q) \/ total + Len(q[k]) >= limit THEN k - 1
    ELSE FittingFrom(q, k + 1, total + Len(q[k]), limit)

StrippedEach(q) == [k \in 1..Len(q) |-> Strip(q[k])] \o <<>>

_clean_and_format_summary(text) ==
    Let(Deleted(One("[\\[\\]{}]"),
            DeletedIgnoringCase(Lit("note:") \o DotLazy0 \o Alt(<<Lit("\n"), Eos>>),
                DeletedIgnoringCase(Lit("(") \o DotLazy0 \o Lit("fill") \o DotLazy0 \o Lit("out")
                                        \o DotLazy0 \o Lit(")"),
                    Collapse(Strip(text))))), LAMBDA cleaned :
    Let(Take(SelectSeq(StrippedEach(SplitSentences(cleaned)), LAMBDA s : Len(s) > 20), 3),
        LAMBDA first3 :
    Let(Take(first3, FittingFrom(first3, 1, 0, 250)), LAMBDA summary_parts :
        IF summary_parts # <<>> THEN WithFullStop(Strip(Join(". ", summary_parts)))
        ELSE IF Len(cleaned) > 200 THEN SubSeq(cleaned, 1, 200) \o "..."
        ELSE cleaned)))

_clean_summary_text(text) ==
    Let(Deleted(One("[\\[\\]{}]"), Collapse(Strip(text))), LAMBDA cleaned :
    Let(IF cleaned # "" /\ ~EndsWith(cleaned, ".") THEN cleaned \o "." ELSE cleaned,
        LAMBDA ended :
    Let(SplitSentences(ended), LAMBDA sentences :
        IF Len(ended) > 300
        THEN Join(". ", Take(StrippedEach(sentences), FittingFrom(sentences, 1, 0, 250))) \o "."
        ELSE ended)))

\* the end of a summary section in _extract_incident_summary
SummaryEnd == Alt(<<Lit("\n\n"), Lit("\nimpact"), Lit("\ntimeline"), SectionHeader>>)

summary_patterns ==
    <<ExecSummary \o ColonSpace1 \o Cap(1, AnyLazy0) \o SummaryEnd,
      Lit("summary") \o ColonSpace1 \o Cap(1, AnyLazy0) \o SummaryEnd,
      Lit("overview") \o ColonSpace1 \o Cap(1, AnyLazy0) \o SummaryEnd,
      Lit("incident summary") \o ColonSpace1 \o Cap(1, AnyLazy0) \o SummaryEnd,
      Lit("what happened") \o ColonSpace1 \o Cap(1, AnyLazy0) \o SummaryEnd,
      Lit("client facing summary") \o ColonSpace0 \o Parenthesis \o S0 \o ColonSpace1
          \o Cap(1, AnyLazy0)
          \o Alt(<<Lit("\n\n"), Lit("\nexec"), Lit("\nimpact"), SectionHeader>>)>>

\* [match.group(1).strip()] of the first pattern whose group 1, stripped, is longer
\* than 50 characters, [] when there is none
FirstLongGroup(patterns, c) ==
    FirstResult(patterns, LAMBDA q :
        Let(Group1(q, c), LAMBDA g : When(g # None /\ Len(Strip(g)) > 50, Strip(g))))

_extract_incident_summary(c, ticket_key) ==
    Let(FirstLongGroup(summary_patterns, c), LAMBDA matched :
    Let(SelectSeq(StrippedEach(SplitOn(c, "\n\n")), LAMBDA p : Len(p) > 100),
        LAMBDA paragraphs :
    Let(IF paragraphs = <<>> THEN <<>>
        ELSE SelectSeq(StrippedEach(Take(SplitSentences(paragraphs[1]), 3)),
                       LAMBDA s : Len(s) > 20), LAMBDA summary_sentences :
        IF matched # <<>> THEN _clean_summary_text(matched[1])
        ELSE IF summary_sentences # <<>> THEN Join(". ", summary_sentences) \o "."
        ELSE DefaultSummary(ticket_key))))

\* impact_patterns of _extract_user_impact
impact_patterns ==
    <<Number \o S1 \o OnboardingOpt \o MembersUsers \o S1 \o WereOpt \o AffectedImpacted,
      AffectedImpacted \o S1 \o Number \o S1 \o MembersUsers,
      MembersUsers \o S1 \o AffectedImpacted \o ColonSpace1 \o Number,
      Cap(1, D1 \o Opt(Lit(".") \o D1) \o Lit("%")) \o S1 \o Lit("of") \o S1 \o MembersUsers
          \o S1 \o WereOpt \o AffectedImpacted,
      Lit("all") \o S1 \o MembersUsers \o S1 \o WereOpt \o AffectedImpacted,
      Lit("no") \o S1 \o MembersUsers \o S1 \o WereOpt \o AffectedImpacted,
      Alt(<<Words(<<"customer", "impact">>), Lit("impact")>>) \o ColonSpace0 \o DotLazy0
          \o Number \o S1 \o OnboardingOpt \o MembersUsers,
      Lits(<<"predicted", "estimated">>) \o S1 \o Lit("impact") \o S1 \o Lit("of") \o S1
          \o Number \o S1 \o OnboardingOpt \o MembersUsers>>

\* duration_patterns of _extract_user_impact
user_impact_duration_patterns ==
    <<Alt(<<Lit("lasted"), Lit("duration"), Words(<<"down", "for">>),
            Words(<<"outage", "for">>)>>) \o S1 \o Cap(1, D1) \o S1
          \o Alt(<<Word("minute"), Word("hour"), Word("min")>>),
      Cap(1, D1) \o S1 \o Lits(<<"minute", "hour", "min">>) \o S1
          \o Lits(<<"outage", "downtime", "impact">>)>>

\* user_type_patterns of _extract_user_impact
user_type_patterns ==
    <<Cap(1, Lits(<<"pt", "physical therapy", "therapist">>)) \o S1 \o Word("user"),
      Cap(1, Lits(<<"member", "patient">>)) \o S1 \o Word("user"),
      Cap(1, Lits(<<"ios", "android", "mobile">>)) \o S1 \o Word("user"),
      Cap(1, Lits(<<"new", "existing">>)) \o S1 \o Word("user")>>

\* re.findall of every pattern, one after the other
FindAllOf(patterns, c) == Flatten(Each(patterns, LAMBDA q : FindAll(q, Lower(c), c)))

\* [match.group(0).strip()] of the first pattern that matches c, [] when none does
FirstWhole(patterns, c) ==
    FirstResult(patterns, LAMBDA q :
        Let(Search(q, Lower(c)), LAMBDA m : When(m.ok, Strip(Whole(c, m)))))

_extract_user_impact(c, seed) ==
    Let(FirstWhole(impact_patterns, c), LAMBDA impact :
    Let(FirstWhole(user_impact_duration_patterns, c), LAMBDA duration :
    Let(FindAllOf(user_type_patterns, c), LAMBDA user_types :
    Let((IF duration = <<>> THEN "" ELSE " Duration: " \o duration[1])
        \o (IF user_types = <<>> THEN ""
            ELSE " User types: " \o Join(", ", SetOrder(user_types, seed))),
        LAMBDA details :
        IF impact # <<>> THEN impact[1]
        ELSE IF details # "" THEN Strip("Impact details:" \o details)
        ELSE "User impact information not clearly specified in RCA document"))))

_parse_cause_list(cause_text) ==
    Let(ListItems(cause_text), LAMBDA matches :
    Let(SelectSeq(StrippedEach(SplitClauses(cause_text)), LAMBDA s : Len(s) > 15),
        LAMBDA meaningful_sentences :
        IF matches # <<>> THEN SelectSeq(StrippedEach(matches), LAMBDA s : Len(s) > 10)
        ELSE IF meaningful_sentences # <<>> THEN Take(meaningful_sentences, 3)
        ELSE IF 10 < Len(cause_text) /\ Len(cause_text) < 200 THEN <<Strip(cause_text)>>
        ELSE <<>>))

\* root_cause_patterns of _extract_root_causes (re.DOTALL)
root_cause_patterns ==
    LET end == Alt(<<Lit("\n\n"), Lit("\n") \o ShortHeader>>)
    IN <<Lit("root") \o S1 \o Word("cause") \o ColonSpace1 \o Cap(1, AnyLazy0) \o end,
         Lit("cause") \o ColonSpace1 \o Cap(1, AnyLazy0) \o end,
         Lit("why") \o S1 \o Lits(<<"this", "it">>) \o S1 \o Lit("happened") \o ColonSpace1
             \o Cap(1, AnyLazy0) \o end>>

\* technical_patterns of _extract_root_causes
technical_patterns ==
    <<Cap(1, Alt(<<Words(<<"code", "bug">>), Words(<<"software", "bug">>),
                   Words(<<"coding", "error">>)>>)),
      Cap(1, Lit("configuration") \o S1 \o Lits(<<"error", "issue", "problem">>)),
      Cap(1, Lit("deployment") \o S1 \o Lits(<<"error", "issue", "failure">>)),
      Cap(1, Lit("database") \o S1 \o Lits(<<"error", "issue", "failure", "connection">>)),
      Cap(1, Lit("server") \o S1 \o Lits(<<"error", "failure", "crash", "timeout">>)),
      Cap(1, Lit("network") \o S1 \o Lits(<<"error", "issue", "failure", "timeout">>)),
      Cap(1, Lit("third") \o Opt(One("[- ]")) \o Lit("party") \o S1 \o Lit("service") \o S1
                 \o Lits(<<"failure", "issue">>)),
      Cap(1, Alt(<<Words(<<"human", "error">>), Words(<<"manual", "error">>)>>)),
      Cap(1, Lit("monitoring") \o S1 \o Lits(<<"gap", "failure", "issue">>)),
      Cap(1, Lit("resource") \o S1 \o Lits(<<"exhaustion", "limit", "shortage">>))>>

RECURSIVE AppendTitled(_, _)
\* root_causes.append(cause.title()) for each cause not yet in it, ignoring case
AppendTitled(root_causes, matches) ==
    IF matches = <<>> THEN root_causes
    ELSE AppendTitled(IF \E k \in 1..Len(root_causes) :
                             Lower(root_causes[k]) = Lower(Head(matches))
                      THEN root_causes
                      ELSE Append(root_causes, StrTitle(Head(matches))),
                      Tail(matches))

_extract_root_causes(c) ==
    LET of(q) ==
            Let(Group1(q, c), LAMBDA cause_text :
                IF cause_text = None THEN <<>> ELSE _parse_cause_list(Strip(cause_text)))
    IN Let(AppendTitled(Flatten(Each(root_cause_patterns, of)),
                        FindAllOf(technical_patterns, c)), LAMBDA root_causes :
           IF root_causes = <<>> THEN <<"Root cause analysis in progress or not specified">>
           ELSE Take(root_causes, 5))

_fallback_pattern_extraction(c, ticket_key, seed) ==
    [incident_summary |-> _extract_incident_summary(c, ticket_key),
     users_impacted |-> _extract_user_impact(c, seed),
     root_causes |-> _extract_root_causes(c)]

(***************************************************************************)
(* rca_analyzer.py: the extraction of the except branch of                 *)
(* _perform_llm_analysis, and the entry point                              *)
(***************************************************************************)

\* exec_summary_patterns of _intelligent_summary_extraction (re.DOTALL)
exec_summary_patterns ==
    LET sentence == Lit(".") \o Rep("[^.]", 0, Unbounded)
    IN <<ExecSummary \o ColonSpace1 \o Cap(1, AnyLazy0)
             \o Alt(<<S1 \o Lit("impact") \o One("[a-zA-Z]"), S1 \o Lit("timeline"),
                      S1 \o Words(<<"root", "cause">>),
                      S1 \o One("[a-zA-Z]") \o Letters0 \o Lit(":")>>),
         \* ([^.]+(?:\.[^.]*){1,3})
         Lit("exec") \o Opt(Lit("utive")) \o S0 \o Lit("summary") \o ColonSpace0
             \o Cap(1, Rep("[^.]", 1, Unbounded) \o sentence \o Opt(sentence \o Opt(sentence)))>>

_intelligent_summary_extraction(c, ticket_key) ==
    LET words == <<"down", "failed", "outage", "error", "issue", "unavail">>
        describes(sentence) == Len(Strip(sentence)) > 30 /\ AnyIn(words, Lower(sentence))
    IN Let(FirstLongGroup(exec_summary_patterns, c), LAMBDA matched :
       Let(FirstLongGroup(<<ClientFacingSummary \o ColonSpace1 \o Cap(1, AnyLazy0)
                              \o Alt(<<Lit("\n\n"), SectionHeader>>)>>, c), LAMBDA client :
       Let(Group1(Lit("impact") \o ColonSpace1 \o Cap(1, AnyLazy0)
                      \o Alt(<<Lit("\n\n"), Lit("\ntimeline"), SectionHeader>>), c),
           LAMBDA impact_section :
       Let(IF impact_section = None THEN <<>>
           ELSE SelectSeq(SplitSentences(Strip(impact_section)), describes),
           LAMBDA sentences :
           IF matched # <<>> THEN _clean_and_format_summary(matched[1])
           ELSE IF client # <<>> THEN _clean_and_format_summary(client[1])
           ELSE IF sentences # <<>> THEN _clean_and_format_summary(Strip(sentences[1]))
           ELSE _extract_incident_summary(c, ticket_key)))))

\* impact_section_patterns of _intelligent_impact_extraction (re.DOTALL)
impact_section_patterns ==
    <<Words(<<"customer", "impact">>) \o ColonSpace1 \o Cap(1, AnyLazy0)
          \o Alt(<<Lit("source"), Lit("security"), Words(<<"business", "impact">>),
                   SectionHeader>>),
      Lit("impact") \o ColonSpace1 \o Cap(1, AnyLazy0)
          \o Alt(<<Lit("timeline"), Words(<<"root", "cause">>), SectionHeader>>)>>

\* number_patterns of _intelligent_impact_extraction (re.IGNORECASE)
number_patterns ==
    <<Number \o S1 \o Cap(2, Letters0 \o OnboardingOpt \o MembersUsersCustomers),
      Lits(<<"predicted", "estimated">>) \o S1 \o Lit("impact") \o S1 \o Lit("of") \o S1
          \o Number \o S1 \o Cap(2, Letters0 \o OnboardingOpt \o MembersUsersCustomers),
      Number \o S1 \o Cap(2, Letters1) \o S1 \o WereOpt \o AffectedImpacted>>

\* (?:down|outage|unavailable|impact).*?(\d+)\s+(minutes?|hours?|mins?|hrs?)
duration_pattern ==
    Lits(<<"down", "outage", "unavailable", "impact">>) \o DotLazy0 \o Cap(1, D1) \o S1
        \o Cap(2, Alt(<<Word("minute"), Word("hour"), Word("min"), Word("hr")>>))

\* (onboarding|login|authentication|mobile\s+app|web\s+app|api|endpoints?)\s+
\* (?:were\s+)?(?:down|unavailable|affected|failed)
service_pattern ==
    Cap(1, Alt(<<Lit("onboarding"), Lit("login"), Lit("authentication"),
                 Words(<<"mobile", "app">>), Words(<<"web", "app">>), Lit("api"),
                 Word("endpoint")>>))
        \o S1 \o WereOpt \o Lits(<<"down", "unavailable", "affected", "failed">>)

_intelligent_impact_extraction(c, seed) ==
    LET of(q) ==
            Let(Group1(q, c), LAMBDA impact_text :
                IF impact_text = None THEN <<>>
                ELSE NumberedUsers(number_patterns, Strip(impact_text)))
        duration(m) == Group(c, m, 1) \o " " \o Group(c, m, 2)
    IN Let(Each(FindIter(duration_pattern, Lower(c), 1), duration), LAMBDA durations :
       Let(FindAll(service_pattern, Lower(c), c), LAMBDA services :
       Let(FirstResult(impact_section_patterns, of)
               \o When(durations # <<>>,
                       "Duration: " \o Join(", ", SetOrder(durations, seed)))
               \o When(services # <<>>,
                       "Services: " \o Join(", ", SetOrder(services, seed))),
           LAMBDA impact_info :
           IF impact_info # <<>> THEN Join("; ", Unique(impact_info))
           ELSE _extract_user_impact(c, seed))))

\* tech_patterns of _intelligent_cause_extraction
tech_patterns ==
    <<[pattern |-> Cap(1, Alt(<<Lit("f5"), Lit("waf"),
                                Words(<<"web", "application", "firewall">>)>>)) \o DotLazy0
                      \o Lits(<<"maintenance", "outage", "down", "failed">>),
       description |-> "Third-party WAF provider issue"],
      [pattern |-> Cap(1, Lits(<<"database", "db">>)) \o DotLazy0
                      \o Lits(<<"connection", "timeout", "failed", "down">>),
       description |-> "Database connectivity issue"],
      [pattern |-> Cap(1, Lits(<<"server", "instance">>)) \o DotLazy0
                      \o Lits(<<"crash", "failed", "timeout", "down">>),
       description |-> "Server failure"],
      [pattern |-> Cap(1, Lits(<<"deployment", "deploy">>)) \o DotLazy0
                      \o Lits(<<"failed", "error", "issue">>),
       description |-> "Deployment failure"],
      [pattern |-> Cap(1, Lits(<<"configuration", "config">>)) \o DotLazy0
                      \o Lits(<<"error", "wrong", "incorrect">>),
       description |-> "Configuration error"],
      [pattern |-> Cap(1, Lits(<<"network", "connectivity">>)) \o DotLazy0
                      \o Lits(<<"issue", "problem", "failed">>),
       description |-> "Network connectivity issue"]>>

\* causal_patterns of _intelligent_cause_extraction, each followed by ([^.]+)
summary_causal_patterns ==
    LET cause == Cap(1, Rep("[^.]", 1, Unbounded))
    IN <<Words(<<"due", "to">>) \o S1 \o cause,
         Words(<<"because", "of">>) \o S1 \o cause,
         Words(<<"caused", "by">>) \o S1 \o cause,
         Words(<<"as", "a", "result">>) \o S1 \o Lit("of") \o S1 \o cause>>

_intelligent_cause_extraction(c) ==
    LET section == Alt(<<Lit("\n\n"), SectionHeader>>)
        clean(cause) == RStrip(Strip(cause), ",")
    IN Let(Group1(Lit("root") \o S1 \o Word("cause") \o ColonSpace1 \o Cap(1, AnyLazy0)
                      \o section, c), LAMBDA cause_text :
       Let(IF cause_text = None THEN <<>> ELSE _parse_cause_list(Strip(cause_text)),
           LAMBDA parsed_causes :
       Let(Group1(ExecSummary \o ColonSpace1 \o Cap(1, AnyLazy0) \o section, c),
           LAMBDA summary_text :
       Let(IF parsed_causes # <<>> \/ summary_text = None THEN <<>>
           ELSE SelectSeq(Each(FindAllOf(summary_causal_patterns, Strip(summary_text)), clean),
                          LAMBDA cause : Len(cause) > 10), LAMBDA causal :
       Let(UniqueIgnoringCase(parsed_causes \o causal \o Indicated(tech_patterns, c, <<>>)),
           LAMBDA unique_causes :
           IF unique_causes # <<>> THEN Take(unique_causes, 5)
           ELSE <<"Root cause analysis in progress or not specified">>)))))

\* self.quality_thresholds
quality_thresholds ==
    [high |-> [min_content_length |-> 1000, required_sections |-> 3],
     medium |-> [min_content_length |-> 500, required_sections |-> 2],
     low |-> [min_content_length |-> 100, required_sections |-> 1]]

_assess_content_quality(c) ==
    \* (?i)(?:^|\n)[A-Z][a-z]+: for the sections and (?:^|\n)\s*[-*\d], the class also
    \* holding the bullet U+2022, for the lists
    Let(CountMatches(Alt(<<Bos, Lit("\n")>>) \o ShortHeader, Lower(c))
            + (CountMatches(Alt(<<Bos, Lit("\n")>>) \o S0 \o One("[-*\\d]"), c) \div 3),
        LAMBDA total_sections :
        LET reaches(level) ==
                /\ Len(c) >= quality_thresholds[level].min_content_length
                /\ total_sections >= quality_thresholds[level].required_sections
        IN IF reaches("high") THEN "high" ELSE IF reaches("medium") THEN "medium" ELSE "low")

\* RCAAnalysis(...)
RCAAnalysis(incident_summary, users_impacted, root_causes, analysis_quality, raw_content_length, error_message) ==
    [incident_summary |-> incident_summary, users_impacted |-> users_impacted,
     root_causes |-> root_causes, analysis_quality |-> analysis_quality,
     raw_content_length |-> raw_content_length, error_message |-> error_message]

\* result carries no 'content' key, so len(result.get('content', '')) is len('')
_validate_analysis_result(result, quality_score) ==
    LET incident_summary == Strip(result.incident_summary)
        users_impacted == Strip(result.users_impacted)
    IN RCAAnalysis(
           IF Len(incident_summary) < 20
           THEN "Incident summary not available or insufficient detail in RCA document"
           ELSE incident_summary,
           IF users_impacted = "" THEN "User impact details not specified" ELSE users_impacted,
           IF result.root_causes = <<>> THEN <<"Root cause analysis pending or not documented">>
           ELSE result.root_causes,
           quality_score, Len(""), None)

\* the steps of analyze_rca_document in which a failure is injected; the failure of
\* _analyze_with_sequential_thinking is that of the temporary file it writes
NarrativeSteps ==
    {"_assess_content_quality", "_analyze_with_sequential_thinking",
     "_intelligent_summary_extraction", "_fallback_pattern_extraction",
     "_validate_analysis_result"}

\* the extraction steps, each of which runs only when the one before it has raised
ExtractionChain ==
    <<"_analyze_with_sequential_thinking", "_intelligent_summary_extraction",
      "_fallback_pattern_extraction">>

\* flt names the last step that raises: a step raises when it is flt, or when it is
\* a step of the extraction chain before flt
Raises(step, flt) ==
    \/ step = flt
    \/ \E i, j \in 1..Len(ExtractionChain) :
           i < j /\ ExtractionChain[i] = step /\ ExtractionChain[j] = flt

\* the except branch of analyze_rca_document; error is the step that raised
NarrativeFallback(c, error) ==
    RCAAnalysis("Analysis failed", "Unable to determine", <<"Analysis error">>, "low",
                Len(c), error)

Raised(step) == [raised |-> step]
IsRaised(x) == "raised" \in DOMAIN x

\* the None of an Optional[Dict]
NoDict == [none |-> TRUE]
IsNoDict(x) == "none" \in DOMAIN x

\* _analyze_with_sequential_thinking: None when anything in it raises
_analyze_with_sequential_thinking(c, ticket_key, flt) ==
    IF Raises("_analyze_with_sequential_thinking", flt) THEN NoDict
    ELSE _simulate_sequential_analysis(c, ticket_key)

\* _perform_llm_analysis: the except branch also handles the exception the try
\* branch raises when the analysis is None
_perform_llm_analysis(c, ticket_key, flt, seed) ==
    Let(_analyze_with_sequential_thinking(c, ticket_key, flt), LAMBDA structured :
        IF ~IsNoDict(structured) THEN structured
        ELSE IF Raises("_intelligent_summary_extraction", flt)
        THEN Raised("_intelligent_summary_extraction")
        ELSE [incident_summary |-> _intelligent_summary_extraction(c, ticket_key),
              users_impacted |-> _intelligent_impact_extraction(c, seed),
              root_causes |-> _intelligent_cause_extraction(c)])

_extract_structured_data(c, ticket_key, flt, seed) ==
    Let(_perform_llm_analysis(c, ticket_key, flt, seed), LAMBDA structured :
        IF ~IsRaised(structured) THEN structured
        ELSE IF Raises("_fallback_pattern_extraction", flt)
        THEN Raised("_fallback_pattern_extraction")
        ELSE _fallback_pattern_extraction(c, ticket_key, seed))

\* analyze_rca_document with the validation after the try block: its exception
\* reaches the caller
ValidatedOutsideTry(c, ticket_key, flt, seed) ==
    IF Raises("_assess_content_quality", flt)
    THEN NarrativeFallback(c, "_assess_content_quality")
    ELSE IF Len(c) < 100
    THEN RCAAnalysis("Content too short for analysis", "Unable to determine",
                     <<"Content insufficient">>, "low", Len(c), "Content too short")
    ELSE Let(_extract_structured_data(c, ticket_key, flt, seed), LAMBDA structured :
             IF IsRaised(structured) THEN NarrativeFallback(c, structured.raised)
             ELSE IF Raises("_validate_analysis_result", flt)
             THEN Raised("_validate_analysis_result")
             ELSE _validate_analysis_result(structured, _assess_content_quality(c)))

\* analyze_rca_document(content, ticket_key); flt: the last step that raises, "none"
\* when none does; seed: the hash seed of the process
analyze_rca_document(c, ticket_key, flt, seed) ==
    IF Raises("_assess_content_quality", flt)
    THEN NarrativeFallback(c, "_assess_content_quality")
    ELSE IF Len(c) < 100
    THEN RCAAnalysis("Content too short for analysis", "Unable to determine",
                     <<"Content insufficient">>, "low", Len(c), "Content too short")
    ELSE Let(_extract_structured_data(c, ticket_key, flt, seed), LAMBDA structured :
             IF IsRaised(structured) THEN NarrativeFallback(c, structured.raised)
             ELSE IF Raises("_validate_analysis_result", flt)
             THEN NarrativeFallback(c, "_validate_analysis_result")
             ELSE _validate_analysis_result(structured, _assess_content_quality(c)))

(***************************************************************************)
(* Inputs                                                                  *)
(***************************************************************************)

\* the longest document, in fragments
MaxFrags == 2

\* how often an analyzer is called on the same input
MaxCalls == 2

RECURSIVE SeqsUpTo(_, _)
\* the sequences over S of length at most n
SeqsUpTo(S, n) ==
    IF n = 0 THEN {<<>>}
    ELSE LET shorter == SeqsUpTo(S, n - 1)
         IN shorter \cup {Append(q, x) : q \in shorter, x \in S}

\* the documents made of at most MaxFrags of the fragments, joined by blanks
DocsOf(frags) == {Join(" ", q) : q \in SeqsUpTo(frags, MaxFrags)}

BusinessFrags ==
    {"1,200 users were affected", "15% of Users", "the entire user base", "500 accounts",
     "several teams", "ALL USERS", "some users", "payment outage lasted 45 minutes",
     "down for 2 hours 30 min", "1.5 hours", "90 seconds", "payment", "login"}

TechnicalFrags ==
    {"database connection timeout", "configuration error", "bug bug bug bug",
     "server network database DNS", "Deploy rollback release", "manual process runbook",
     "detected after 15 minutes", "resolved after 1.5 hours", "Time to resolve: 45 min",
     "legacy hack workaround", "no alert", "could be automated to prevent human error"}

RECURSIVE Repeat(_, _)
\* n copies of s
Repeat(s, n) == IF n = 0 THEN "" ELSE s \o Repeat(s, n - 1)

\* how often the filler sentence is repeated to get a text of 1000 characters and more
FillerCopies == 50

\* the words of a sentence without a full stop
LongSentenceWords == 31

TimelineSection ==
    "Executive Summary: checkout outage. Timeline: 2024-01-01 14:30 alert fired, 2024-01-01 14:45 mitigated, 2:30 PM PST fixed, 1/1/2024 15:00 closed, 2024-01-02 09:00 review. Time to detect was short."
ImpactSection ==
    "Impact: 1,200 users could not pay for 45 minutes; revenue and SLA affected."
RootCauseSection ==
    "Root cause: 5 Whys. Why did the deployment fail? Why was the configuration wrong? Why no alert? Contributing, underlying and primary factors: database timeout error in server code; process and system design."
ActionSection ==
    "Action items: will fix by 2024-02-01, owner: Jane; must add monitor; should review process; need to automate; will prevent regressions; high priority within a sprint."
LessonsSection ==
    "Lessons learned: share with the team in the wiki. Severity P1. Author and date reviewed."

\* a report with every section
FullReport ==
    Join(" ", <<TimelineSection, ImpactSection, RootCauseSection, ActionSection, LessonsSection>>)

QualityFrags ==
    {TimelineSection, ImpactSection, RootCauseSection, ActionSection, LessonsSection,
     FullReport,
     "Timeline: 2024-01-01 14:30 started, 3:10 PM UTC ended",
     "Alert at 2024-01-01 14:30, recovery at 2024-01-01 15:10",
     "Impact on some members from 14:30 until recovery to 15:10",
     "Root cause: human error, someone forgot the runbook. Why?",
     "fishbone cause analysis of the network",
     "Next step: avoid this",
     "N/A",
     Repeat("The service recovered. ", FillerCopies),
     Repeat("word ", LongSentenceWords)}

\* the fragments of the narrative documents: a summary with an impact section, a
\* customer-impact section naming two durations and two services, a root-cause
\* list, and a sentence naming several kinds of user
NarrativeFrags ==
    {"Executive Summary: On 2024-03-05 the F5 WAF regional POPs were down due to emergency vendor maintenance, so member logins failed for two hours.\nImpact: 1,200 onboarding members were affected and the API was unavailable.\n",
     "\nCustomer Impact: 350 users were impacted. Login was down for 30 minutes and the mobile app was unavailable for 2 hours.\nSource: monitoring alert\n",
     "\nRoot Cause: \n- Database connection pool exhausted by a configuration error\n- Deployment failed without rollback\nLessons: add alerts for the pool\n",
     "iOS users and Android users reported errors during the 20 minute outage; the network timeout was a human error."}

\* the hash seeds of the interpreter: 0 .. MaxSeed
MaxSeed == 1

Summaries == {"", "Checkout down for all users"}

Priorities == {"P1", "P2", "P3", "P4", "Not Set", "p1"}

(***************************************************************************)
(* Specifications                                                          *)
(***************************************************************************)

\* the variables an analyzer specification does not use
IdleJira == start_at = 0 /\ server = [total |-> 0, page |-> 0]
IdleMain ==
    /\ incidents = <<>> /\ idx = 0 /\ analyzed_count = 0 /\ failed_count = 0
    /\ trace = <<>>
    /\ pc = "idle" /\ exit_status = -1 /\ systemic = "none"
    /\ IdleJira
IdleGrade == total_score = 0 /\ grade = None
\* the value of a result variable before the analyzer is called
NotCalled == [called |-> FALSE]
WasCalled(result) == "called" \notin DOMAIN result
IdleResults(keep) ==
    /\ "business" \in keep \/ business_impact = NotCalled
    /\ "quality" \in keep \/ quality_assessment = NotCalled
    /\ "technical" \in keep \/ technical_analysis = NotCalled
    /\ "narrative" \in keep \/ analysis_result = NotCalled

mainVars == <<incidents, idx, analyzed_count, failed_count, trace,
              pc, exit_status, systemic, start_at, server>>
inputVars == <<content, summary, priority, fault, hash_seed>>

InitBusiness ==
    /\ content \in DocsOf(BusinessFrags)
    /\ summary \in Summaries
    /\ priority \in Priorities
    /\ fault \in {"none"} \cup BusinessSteps
    /\ hash_seed = 0
    /\ calls = 0 /\ business_impact = NotCalled /\ previous = None
    /\ IdleResults({"business"}) /\ IdleGrade /\ IdleMain

\* business_analyzer.analyze_business_impact(content, ticket_key, priority, summary, pods)
CallBusiness ==
    /\ calls < MaxCalls
    /\ calls' = calls + 1
    /\ previous' = business_impact
    /\ business_impact' = analyze_business_impact(content, priority, summary, fault)
    /\ UNCHANGED <<quality_assessment, technical_analysis, analysis_result,
                   total_score, grade>>
    /\ UNCHANGED inputVars /\ UNCHANGED mainVars

SpecBusiness == InitBusiness /\ [][CallBusiness]_vars

InitTechnical ==
    /\ content \in DocsOf(TechnicalFrags)
    /\ summary = "" /\ priority = "P4"
    /\ fault \in {"none"} \cup TechnicalSteps
    /\ hash_seed = 0
    /\ calls = 0 /\ technical_analysis = NotCalled /\ previous = None
    /\ IdleResults({"technical"}) /\ IdleGrade /\ IdleMain

\* technical_analyzer.analyze_technical_aspects(content, ticket_key, created)
CallTechnical ==
    /\ calls < MaxCalls
    /\ calls' = calls + 1
    /\ previous' = technical_analysis
    /\ technical_analysis' = analyze_technical_aspects(content, fault)
    /\ UNCHANGED <<business_impact, quality_assessment, analysis_result, total_score, grade>>
    /\ UNCHANGED inputVars /\ UNCHANGED mainVars

SpecTechnical == InitTechnical /\ [][CallTechnical]_vars

\* the ticket key the analyzers are called with
TicketKey == "INC-1"

InitQuality ==
    /\ content \in DocsOf(QualityFrags)
    /\ summary = "" /\ priority = "P4"
    /\ fault \in {"none"} \cup QualitySteps
    /\ hash_seed = 0
    /\ calls = 0 /\ quality_assessment = NotCalled /\ previous = None
    /\ IdleResults({"quality"}) /\ IdleGrade /\ IdleMain

\* quality_analyzer.analyze_rca_quality(content, ticket_key)
CallQuality ==
    /\ calls < MaxCalls
    /\ calls' = calls + 1
    /\ previous' = quality_assessment
    /\ quality_assessment' = analyze_rca_quality(content, TicketKey, fault)
    /\ UNCHANGED <<business_impact, technical_analysis, analysis_result, total_score, grade>>
    /\ UNCHANGED inputVars /\ UNCHANGED mainVars

SpecQuality == InitQuality /\ [][CallQuality]_vars

InitNarrative ==
    /\ content \in DocsOf(NarrativeFrags)
    /\ summary = "" /\ priority = "P4"
    /\ fault \in {"none"} \cup NarrativeSteps
    /\ hash_seed \in 0..MaxSeed
    /\ calls = 0 /\ analysis_result = NotCalled /\ previous = None
    /\ IdleResults({"narrative"}) /\ IdleGrade /\ IdleMain

\* rca_analyzer.analyze_rca_document(content, ticket_key)
CallNarrative ==
    /\ calls < MaxCalls
    /\ calls' = calls + 1
    /\ previous' = analysis_result
    /\ analysis_result' = analyze_rca_document(content, TicketKey, fault, hash_seed)
    /\ UNCHANGED <<business_impact, quality_assessment, technical_analysis, total_score, grade>>
    /\ UNCHANGED inputVars /\ UNCHANGED mainVars

SpecNarrative == InitNarrative /\ [][CallNarrative]_vars

\* the documents of the specification of all four analyzers
\* a report with an executive summary, a root-cause section, a "5 Whys" block,
\* action items with a deadline and an owner, and all five standard sections
ScenarioReport ==
    "Executive Summary: checkout failed. Timeline: 10:00 alert. Impact: users affected. Root Cause: a bad config. 5 Whys: Why1 Why2 Why3. Action Items: will fix by 2024-01-01, owner: Jane."

AnalyzerDocs ==
    {"", ScenarioReport,
     "Executive Summary: checkout failed for 40 minutes due to a configuration error. 1,200 users were affected. Action: add a test."}

Analyzers ==
    <<"analyze_rca_document", "analyze_rca_quality", "analyze_business_impact",
      "analyze_technical_aspects">>

InitAnalyzers ==
    /\ content \in AnalyzerDocs
    /\ summary \in Summaries /\ priority \in {"P1", "Not Set"}
    /\ fault \in {"none"} \cup NarrativeSteps \cup QualitySteps \cup BusinessSteps
                 \cup TechnicalSteps
    /\ hash_seed = 0
    /\ calls = 0 /\ previous = None
    /\ IdleResults({}) /\ IdleGrade /\ IdleMain

\* the four analyzers of one run, called in any order on the same document
SpecAnalyzers ==
    InitAnalyzers /\ [][CallNarrative \/ CallQuality \/ CallBusiness \/ CallTechnical]_vars

(***************************************************************************)
(* main.py: analyze_rca_content                                            *)
(***************************************************************************)

\* dict.update: the fields of new, and those of old that new does not hold
Update(old, new) == new @@ old

\* the defaults with the grade forgotten
DefaultsWithoutGrade ==
    [rca_summary |-> "RCA document not available",
     users_impacted |-> "Not specified",
     root_causes |-> "Not analyzed",
     analysis_quality |-> "N/A",
     rca_quality_score |-> 0,
     quality_feedback |-> "RCA document not available for quality assessment",
     strengths_identified |-> "N/A",
     critical_gaps |-> "N/A",
     business_impact_score |-> 1,
     customer_count_affected |-> "Not specified",
     revenue_impact_est |-> "Unable to estimate",
     service_downtime_minutes |-> 0,
     severity_justification |-> "RCA document not available",
     root_cause_category |-> "Unknown",
     detection_time_minutes |-> 0,
     resolution_time_minutes |-> 0,
     technical_debt_level |-> "Unknown",
     automation_score |-> 0]

\* the fields analyze_rca_content initializes for every incident
AnalysisDefaults ==
    [rca_summary |-> "RCA document not available",
     users_impacted |-> "Not specified",
     root_causes |-> "Not analyzed",
     analysis_quality |-> "N/A",
     rca_quality_score |-> 0,
     rca_grade |-> "N/A",
     quality_feedback |-> "RCA document not available for quality assessment",
     strengths_identified |-> "N/A",
     critical_gaps |-> "N/A",
     business_impact_score |-> 1,
     customer_count_affected |-> "Not specified",
     revenue_impact_est |-> "Unable to estimate",
     service_downtime_minutes |-> 0,
     severity_justification |-> "RCA document not available",
     root_cause_category |-> "Unknown",
     detection_time_minutes |-> 0,
     resolution_time_minutes |-> 0,
     technical_debt_level |-> "Unknown",
     automation_score |-> 0]

\* '; '.join(q) if q else 'None identified'
JoinedOrNone(q) == IF q = <<>> THEN "None identified" ELSE Join("; ", q)

\* the fields set from an RCAAnalysis
NarrativeFields(result) ==
    [rca_summary |-> result.incident_summary,
     users_impacted |-> result.users_impacted,
     root_causes |-> Join("; ", result.root_causes),
     analysis_quality |-> result.analysis_quality]

\* the fields set from a QualityAssessment
QualityFields(assessment) ==
    [rca_quality_score |-> assessment.total_score,
     rca_grade |-> assessment.grade,
     quality_feedback |-> assessment.overall_feedback,
     strengths_identified |-> JoinedOrNone(assessment.top_strengths),
     critical_gaps |-> JoinedOrNone(assessment.critical_gaps)]

\* the fields set from a BusinessImpact
BusinessFields(impact) ==
    [business_impact_score |-> impact.impact_score,
     customer_count_affected |-> impact.customer_count_affected,
     revenue_impact_est |-> impact.revenue_impact_est,
     service_downtime_minutes |-> impact.service_downtime_minutes,
     severity_justification |-> impact.severity_justification]

\* the fields set from a TechnicalAnalysis
TechnicalFields(analysis) ==
    [root_cause_category |-> analysis.root_cause_category,
     detection_time_minutes |-> analysis.detection_time_minutes,
     resolution_time_minutes |-> analysis.resolution_time_minutes,
     technical_debt_level |-> analysis.technical_debt_level,
     automation_score |-> analysis.automation_score]

\* not rca_url or rca_url == 'Not Found'
NoDocument(rca_url) == rca_url = None \/ rca_url = "" \/ rca_url = "Not Found"

\* the threshold of the length check a digit short
InsufficientBelow5(cleaned_content) == Len(Strip(cleaned_content)) < 5

\* len(cleaned_content.strip()) < 50
Insufficient(cleaned_content) == Len(Strip(cleaned_content)) < 50

\* the loop body without the try block around the iteration: the exception of
\* analyze_rca_document leaves analyze_rca_content
LoopBodyWithoutOuterTry(incident, page, raising) ==
    LET ticket_key == incident.ticket_key
        initialized == Update(incident, AnalysisDefaults)
        outcome(inc, analyzed, failed, called) ==
            [incident |-> inc, analyzed |-> analyzed, failed |-> failed, called |-> called,
             raised |-> FALSE]
        raises(call) == call \in raising
        \* the three inner try blocks, each after the one before it
        quality == IF raises("analyze_rca_quality")
                   THEN [quality_feedback |->
                            "Quality assessment failed: " \o "analyze_rca_quality"]
                   ELSE QualityFields(analyze_rca_quality(page, ticket_key, "none"))
        business == IF raises("analyze_business_impact")
                    THEN [severity_justification |->
                             "Business analysis failed: " \o "analyze_business_impact"]
                    ELSE BusinessFields(analyze_business_impact(
                             page, incident.incident_urgency, incident.summary, "none"))
        technical == IF raises("analyze_technical_aspects")
                     THEN [root_cause_category |->
                              "Analysis failed: " \o "analyze_technical_aspects"]
                     ELSE TechnicalFields(analyze_technical_aspects(page, "none"))
    IN IF NoDocument(incident.rca_link) THEN outcome(initialized, 0, 0, <<>>)
       ELSE IF page = None
       THEN outcome(Update(initialized, [rca_summary |-> "Failed to retrieve RCA content"]),
                    0, 1, <<>>)
       ELSE IF Insufficient(page)
       THEN outcome(Update(initialized,
                           [rca_summary |-> "RCA content insufficient for analysis"]),
                    0, 1, <<>>)
       ELSE IF raises("analyze_rca_document")
       THEN [incident |-> initialized, analyzed |-> 0, failed |-> 0,
             called |-> <<"analyze_rca_document">>, raised |-> TRUE]
       ELSE outcome(Update(Update(Update(Update(initialized,
                        NarrativeFields(analyze_rca_document(page, ticket_key, "none",
                                                             hash_seed))),
                        quality), business), technical),
                    1, 0, Analyzers)

\* the body of the loop for one incident.  page is what get_rca_content and
\* clean_html_content give for the link: None, or the cleaned text; raising is the
\* set of the analyzer calls that raise, an error naming the call that raised.
\* Gives the incident, the increments of the counters and the analyzer calls made.
LoopBody(incident, page, raising) ==
    LET ticket_key == incident.ticket_key
        initialized == Update(incident, AnalysisDefaults)
        outcome(inc, analyzed, failed, called) ==
            [incident |-> inc, analyzed |-> analyzed, failed |-> failed, called |-> called,
             raised |-> FALSE]
        raises(call) == call \in raising
        \* the three inner try blocks, each after the one before it
        quality == IF raises("analyze_rca_quality")
                   THEN [quality_feedback |->
                            "Quality assessment failed: " \o "analyze_rca_quality"]
                   ELSE QualityFields(analyze_rca_quality(page, ticket_key, "none"))
        business == IF raises("analyze_business_impact")
                    THEN [severity_justification |->
                             "Business analysis failed: " \o "analyze_business_impact"]
                    ELSE BusinessFields(analyze_business_impact(
                             page, incident.incident_urgency, incident.summary, "none"))
        technical == IF raises("analyze_technical_aspects")
                     THEN [root_cause_category |->
                              "Analysis failed: " \o "analyze_technical_aspects"]
                     ELSE TechnicalFields(analyze_technical_aspects(page, "none"))
    IN IF NoDocument(incident.rca_link) THEN outcome(initialized, 0, 0, <<>>)
       ELSE IF page = None
       THEN outcome(Update(initialized, [rca_summary |-> "Failed to retrieve RCA content"]),
                    0, 1, <<>>)
       ELSE IF Insufficient(page)
       THEN outcome(Update(initialized,
                           [rca_summary |-> "RCA content insufficient for analysis"]),
                    0, 1, <<>>)
       ELSE IF raises("analyze_rca_document")
       THEN \* the call is in no try block of its own: the handler of the outer one runs
            outcome(Update(initialized,
                           [rca_summary |-> "Analysis failed: " \o "analyze_rca_document"]),
                    0, 1, <<"analyze_rca_document">>)
       ELSE outcome(Update(Update(Update(Update(initialized,
                        NarrativeFields(analyze_rca_document(page, ticket_key, "none",
                                                             hash_seed))),
                        quality), business), technical),
                    1, 0, Analyzers)

\* how many incidents the list holds at most
MaxIncidents == 2

\* incident.get('rca_link'): no link, the marker of match_rca_documents, or a link
Links == {None, "Not Found", "https://wiki.example/rca"}

\* what the link resolves to: nothing, a text of fewer than 50 characters, a report
Pages ==
    {None, "Service down.",
     "Executive Summary: checkout failed for 40 minutes due to a configuration error. 1,200 users were affected. Action: add a test."}

Incident(k, rca_link) ==
    [ticket_key |-> "INC-" \o ToString(k), rca_link |-> rca_link,
     incident_urgency |-> "P2", summary |-> "Checkout down"]

InitMain ==
    /\ incidents \in {[k \in 1..Len(links) |-> Incident(k, links[k])] \o <<>> :
                         links \in SeqsUpTo(Links, MaxIncidents)}
    /\ idx = 0 /\ analyzed_count = 0 /\ failed_count = 0 /\ trace = <<>>
    /\ pc = "analyze" /\ exit_status = -1 /\ systemic = "none"
    /\ content = "" /\ summary = "" /\ priority = "P4" /\ fault = "none" /\ hash_seed = 0
    /\ calls = 0 /\ previous = None
    /\ IdleResults({}) /\ IdleGrade /\ IdleJira

\* page and raising are drawn for what the iteration gets to: a page is fetched
\* only for a link, and only an analyzer that is called raises
Drawn(incident, page, raising) ==
    /\ NoDocument(incident.rca_link) => page = None
    /\ (page = None \/ Insufficient(page)) => raising = {}
    /\ "analyze_rca_document" \in raising => raising = {"analyze_rca_document"}

\* Recorded with the failures left uncounted
RecordedWithoutFailures(page, raising, done) ==
    /\ incidents' = [incidents EXCEPT ![idx + 1] = done.incident]
    /\ analyzed_count' = analyzed_count + done.analyzed
    /\ failed_count' = failed_count
    /\ trace' = Append(trace, [page |-> page, raising |-> raising, called |-> done.called])
    \* an exception that leaves analyze_rca_content reaches the handler of main
    /\ pc' = IF done.raised THEN "done" ELSE pc
    /\ exit_status' = IF done.raised THEN 1 ELSE exit_status
    /\ systemic' = systemic
    /\ UNCHANGED <<start_at, server>>

\* what an iteration leaves behind; done is what its body came to
Recorded(page, raising, done) ==
    /\ incidents' = [incidents EXCEPT ![idx + 1] = done.incident]
    /\ analyzed_count' = analyzed_count + done.analyzed
    /\ failed_count' = failed_count + done.failed
    /\ trace' = Append(trace, [page |-> page, raising |-> raising, called |-> done.called])
    \* an exception that leaves analyze_rca_content reaches the handler of main
    /\ pc' = IF done.raised THEN "done" ELSE pc
    /\ exit_status' = IF done.raised THEN 1 ELSE exit_status
    /\ systemic' = systemic
    /\ UNCHANGED <<start_at, server>>

\* one iteration of the loop of analyze_rca_content
AnalyzeIncident ==
    /\ pc = "analyze"
    /\ idx < Len(incidents)
    /\ \E page \in Pages, raising \in SUBSET {Analyzers[k] : k \in 1..Len(Analyzers)} :
          /\ Drawn(incidents[idx + 1], page, raising)
          /\ Recorded(page, raising, LoopBody(incidents[idx + 1], page, raising))
    /\ idx' = idx + 1
    /\ UNCHANGED <<calls, business_impact, quality_assessment, technical_analysis,
                   analysis_result, previous, total_score, grade>>
    /\ UNCHANGED inputVars

SpecMain == InitMain /\ [][AnalyzeIncident]_vars

(***************************************************************************)
(* main.py: main                                                           *)
(***************************************************************************)

\* the run-level failures of main: the constructors of the clients raise (missing
\* environment variables), test_connections returns False, get_incidents_since_date
\* raises or returns no incident, filter_incidents_by_date raises (a --since that
\* is no date) or the filters leave no incident, the export raises
SystemicFailures ==
    {"clients", "test_connections", "get_incidents_since_date", "no incidents",
     "filter_incidents_by_date", "no incidents after filtering", "export"}

\* return status, after the step named failure failed ("none": after no failure)
Return(status, failure) ==
    /\ pc' = "done" /\ exit_status' = status /\ systemic' = failure

\* the run goes on to the step next
GoOn(next) == pc' = next /\ UNCHANGED <<exit_status, systemic>>

\* what a step of main leaves alone, but for the incident list
RunUnchanged ==
    /\ UNCHANGED <<idx, analyzed_count, failed_count, trace, start_at, server>>
    /\ UNCHANGED <<calls, business_impact, quality_assessment, technical_analysis,
                   analysis_result, previous, total_score, grade>>
    /\ UNCHANGED inputVars

InitRun ==
    /\ pc = "clients" /\ exit_status = -1 /\ systemic = "none"
    /\ incidents = <<>> /\ idx = 0 /\ analyzed_count = 0 /\ failed_count = 0 /\ trace = <<>>
    /\ content = "" /\ summary = "" /\ priority = "P4" /\ fault = "none" /\ hash_seed = 0
    /\ calls = 0 /\ previous = None
    /\ IdleResults({}) /\ IdleGrade /\ IdleJira

\* JiraClient(), ConfluenceClient() and the analyzers: the clients raise ValueError
\* when the environment holds no credentials
CreateClients ==
    /\ pc = "clients"
    /\ \E raised \in BOOLEAN :
          IF raised THEN Return(1, "clients") ELSE GoOn("test_connections")
    /\ UNCHANGED incidents /\ RunUnchanged

\* if not test_connections(jira_client, confluence_client): return 1
TestConnections ==
    /\ pc = "test_connections"
    /\ \E connected \in BOOLEAN :
          IF connected THEN GoOn("get_incidents") ELSE Return(1, "test_connections")
    /\ UNCHANGED incidents /\ RunUnchanged

\* get_custom_field_mappings, which handles its own exceptions, and
\* jira_client.get_incidents_since_date('2024-01-01'); if not incidents: return 1
GetIncidents ==
    /\ pc = "get_incidents"
    /\ \/ Return(1, "get_incidents_since_date") /\ UNCHANGED incidents
       \/ \E links \in SeqsUpTo(Links \ {"Not Found"}, MaxIncidents) :
             /\ incidents' = [k \in 1..Len(links) |-> Incident(k, links[k])] \o <<>>
             /\ IF links = <<>> THEN Return(1, "no incidents") ELSE GoOn("filter")
    /\ RunUnchanged

\* the incidents of q at the places kept, in their order
Kept(q, kept) ==
    Flatten([k \in 1..Len(q) |-> IF k \in kept THEN <<q[k]>> ELSE <<>>] \o <<>>)

\* filter_incidents_by_date and filter_recent_incidents, by the --since and --recent
\* of the command line: they keep some of the incidents, and filter_incidents_by_date
\* raises when --since is no date; if not incidents: return 1
FilterIncidents ==
    /\ pc = "filter"
    /\ \/ Return(1, "filter_incidents_by_date") /\ UNCHANGED incidents
       \/ \E kept \in SUBSET (1..Len(incidents)) :
             /\ incidents' = Kept(incidents, kept)
             /\ IF kept = {} THEN Return(1, "no incidents after filtering")
                ELSE GoOn("match")
    /\ RunUnchanged

\* match_rca_documents: an incident without a link gets what find_rca_document
\* gives, a link or None; find_rca_document handles its own exceptions
MatchDocuments ==
    /\ pc = "match"
    /\ \E found \in [1..Len(incidents) -> {None, "https://wiki.example/rca"}] :
          incidents' = [k \in 1..Len(incidents) |->
                           IF incidents[k].rca_link = None
                           THEN [incidents[k] EXCEPT !.rca_link = found[k]]
                           ELSE incidents[k]] \o <<>>
    /\ GoOn("analyze")
    /\ RunUnchanged

\* analyze_rca_content returns the incidents
FinishAnalysis ==
    /\ pc = "analyze" /\ idx = Len(incidents)
    /\ GoOn("export")
    /\ UNCHANGED incidents /\ RunUnchanged

\* export_incidents_json or generate_csv_report, then return 0; their exception
\* reaches the handler of main, which returns 1
Export ==
    /\ pc = "export"
    /\ \E raised \in BOOLEAN : IF raised THEN Return(1, "export") ELSE Return(0, "none")
    /\ UNCHANGED incidents /\ RunUnchanged

NextRun ==
    \/ CreateClients \/ TestConnections \/ GetIncidents \/ FilterIncidents
    \/ MatchDocuments \/ AnalyzeIncident \/ FinishAnalysis \/ Export

SpecRun == InitRun /\ [][NextRun]_vars

(***************************************************************************)
(* jira_client.py: the pagination of get_incidents_since_date              *)
(***************************************************************************)

\* max_results of get_incidents_since_date
max_results == 50

\* the most issues that match the query
MaxIssues == 120

\* the most issues the server puts in one page, whatever limit is requested
ServerPages == {30, 50, 100}

\* the k-th issue that matches the query, in server order
Issue(k) == [key |-> "IR-" \o ToString(k)]

\* _extract_incident_data(issue), as far as the identity of the incident goes
_extract_incident_data(issue) == [ticket_key |-> issue.key]

\* self.jira.jql(jql, start, limit, fields): the page of the matching issues that
\* begins at offset start and holds at most limit issues and at most a server page
jql(start, limit) ==
    [issues |-> [k \in 1..Max(0, Min(server.total - start, Min(limit, server.page))) |->
                    Issue(start + k)] \o <<>>,
     total |-> server.total]

InitJira ==
    /\ server \in [total : 0..MaxIssues, page : ServerPages]
    /\ start_at = 0 /\ incidents = <<>> /\ pc = "request"
    /\ idx = 0 /\ analyzed_count = 0 /\ failed_count = 0 /\ trace = <<>>
    /\ exit_status = -1 /\ systemic = "none"
    /\ content = "" /\ summary = "" /\ priority = "P4" /\ fault = "none" /\ hash_seed = 0
    /\ calls = 0 /\ previous = None
    /\ IdleResults({}) /\ IdleGrade

\* what an iteration of the while loop leaves behind for the response it got
Paged(response) ==
    IF response.issues = <<>>
    THEN pc' = "returned" /\ UNCHANGED <<incidents, start_at>>
    ELSE /\ incidents' = incidents \o Each(response.issues, _extract_incident_data)
         /\ IF start_at + max_results >= response.total
            THEN pc' = "returned" /\ UNCHANGED start_at
            ELSE pc' = pc /\ start_at' = start_at + max_results

\* one iteration of the while loop of get_incidents_since_date
RequestPage ==
    /\ pc = "request"
    /\ Paged(jql(start_at, max_results))
    /\ UNCHANGED <<idx, analyzed_count, failed_count, trace, exit_status, systemic, server>>
    /\ UNCHANGED <<calls, business_impact, quality_assessment, technical_analysis,
                   analysis_result, previous, total_score, grade>>
    /\ UNCHANGED inputVars

SpecJira == InitJira /\ [][RequestPage]_vars

\* the highest total a quality assessment can have
MaxTotal == 100

InitGrade ==
    /\ total_score \in 0..MaxTotal
    /\ grade = None
    /\ content = "" /\ summary = "" /\ priority = "P4" /\ fault = "none" /\ hash_seed = 0
    /\ calls = 0 /\ previous = None
    /\ IdleResults({}) /\ IdleMain

\* grade = self._calculate_grade(total_score)
CallGrade ==
    /\ calls < MaxCalls
    /\ calls' = calls + 1
    /\ previous' = grade
    /\ grade' = _calculate_grade(total_score)
    /\ UNCHANGED <<business_impact, quality_assessment, technical_analysis, analysis_result,
                   total_score>>
    /\ UNCHANGED inputVars /\ UNCHANGED mainVars

SpecGrade == InitGrade /\ [][CallGrade]_vars

(***************************************************************************)
(* Properties of analyze_business_impact                                   *)
(***************************************************************************)

\* C2: whatever the content, the summary and the priority (empty strings and
\* priorities outside P1-P4 included), and also on the exception fallback, the
\* impact_score that analyze_business_impact returns lies in 1..10.
C2_ImpactScoreInRange ==
    calls > 0 => business_impact.impact_score \in 1..10

\* C2 witness: the analyzer has run on empty content and summary with a priority
\* outside P1-P4.
C2_Witness ==
    /\ calls > 0 /\ fault = "none"
    /\ content = "" /\ summary = "" /\ priority = "Not Set"
    /\ business_impact.impact_score = 2

\* the document of the scenario: 1,200 users affected, a 45 minute outage, a payment keyword
ScenarioDocument(c) ==
    /\ In("1,200 users were affected", c)
    /\ In("outage lasted 45 minutes", c)
    /\ In("payment", c)

\* C3: a document with "1,200 users were affected", "outage lasted 45 minutes"
\* and a payment keyword, analysed with priority P1, gets impact_score >= 9.
C3_ScenarioScoreAtLeast9 ==
    (calls > 0 /\ fault = "none" /\ priority = "P1" /\ ScenarioDocument(content))
        => business_impact.impact_score >= 9

(***************************************************************************)
(* Properties of analyze_rca_quality                                       *)
(***************************************************************************)

\* C1: the assessment analyze_rca_quality returns has a total_score equal to the sum
\* of the scores of the dimensions it lists, and every listed dimension's score lies
\* in 0..max_points, on the seven-dimension path and on the exception fallback.
C1_TotalIsSumOfDimensions ==
    calls > 0 =>
        LET dims == quality_assessment.dimensions
        IN /\ quality_assessment.total_score
                  = SumSeq([k \in 1..Len(dims) |-> dims[k].score] \o <<>>)
           /\ \A k \in 1..Len(dims) : dims[k].score \in 0..dims[k].max_points

\* C1 witness: an assessment of seven dimensions, each with points, that passes
C1_Witness ==
    /\ calls > 0 /\ fault = "none"
    /\ Len(quality_assessment.dimensions) = 7
    /\ \A k \in 1..7 : quality_assessment.dimensions[k].score > 0
    /\ quality_assessment.total_score >= 60

\* a grade's place, the best first
GradeRank(letter) ==
    CASE letter = "A" -> 1 [] letter = "B" -> 2 [] letter = "C" -> 3
      [] letter = "D" -> 4 [] OTHER -> 5

\* C4: the grade is A iff total >= 90, B iff 80 <= total < 90, C iff 70 <= total < 80,
\* D iff 60 <= total < 70 and F otherwise, and no lower total has a better grade.
C4_GradeThresholds ==
    calls > 0 =>
        /\ grade = "A" <=> total_score >= 90
        /\ grade = "B" <=> (80 <= total_score /\ total_score < 90)
        /\ grade = "C" <=> (70 <= total_score /\ total_score < 80)
        /\ grade = "D" <=> (60 <= total_score /\ total_score < 70)
        /\ grade = "F" <=> total_score < 60
        /\ \A lower \in 0..total_score :
               GradeRank(_calculate_grade(lower)) >= GradeRank(grade)

\* C4 witness: a total on a threshold has been graded
C4_Witness == calls > 0 /\ total_score = 80 /\ grade = "B"

(***************************************************************************)
(* Properties of _classify_root_cause                                      *)
(***************************************************************************)

\* the fixed enumeration order of the categories
CategoryOrder ==
    <<"Code Bug", "Configuration Error", "Infrastructure Failure", "Deployment Issue",
      "External Dependency", "Capacity/Performance", "Process/Human Error",
      "Monitoring/Alerting Gap">>

\* the keywords of a category
KeywordsOf(category) ==
    cause_patterns[CHOOSE k \in 1..Len(cause_patterns) :
                       cause_patterns[k].category = category].keywords

\* the sum over the keywords of a category of min(occurrences, 3)
CappedTotal(text, category) ==
    LET keywords == KeywordsOf(category)
    IN SumSeq([j \in 1..Len(keywords) |-> Min(Count(text, keywords[j]), 3)] \o <<>>)

\* the totals of the eight categories, in the enumeration order
CappedTotals(c) ==
    [k \in 1..Len(CategoryOrder) |-> CappedTotal(Lower(c), CategoryOrder[k])] \o <<>>

\* the category of the highest total, the first of them in the enumeration order,
\* Unknown/Not Classified when every total is 0
HighestFirst(totals) ==
    LET first == First({k \in 1..Len(totals) : \A j \in 1..Len(totals) : totals[j] <= totals[k]})
    IN IF totals[first] = 0 THEN "Unknown/Not Classified" ELSE CategoryOrder[first]

\* C5: _classify_root_cause returns the category with the highest sum over its
\* keywords of min(occurrences, 3), the first in the enumeration order when several
\* share it, and Unknown/Not Classified when every category scores 0.
C5_ClassifyIsCappedArgMax ==
    (calls > 0 /\ fault = "none") =>
        technical_analysis.root_cause_category = HighestFirst(CappedTotals(content))

\* C5 witness: a keyword occurs more than 3 times, and two categories share the
\* highest total
C5_Witness ==
    /\ calls > 0 /\ fault = "none"
    /\ LET totals == CappedTotals(content)
       IN /\ \E j, k \in 1..Len(totals) :
                 /\ j < k /\ totals[j] = totals[k] /\ totals[j] > 0
                 /\ \A i \in 1..Len(totals) : totals[i] <= totals[j]
                 /\ technical_analysis.root_cause_category = CategoryOrder[j]
          /\ \E k \in 1..Len(cause_patterns) : \E j \in 1..Len(cause_patterns[k].keywords) :
                 Count(Lower(content), cause_patterns[k].keywords[j]) > 3

(***************************************************************************)
(* Properties of analyze_rca_document                                      *)
(***************************************************************************)

\* C6: a second call of the analyzer on the same input returns what the first call
\* returned, and what a call returns does not depend on the order in which a set
\* is iterated, that is, on the hash seed of the process.
C6_SameInputSameResult ==
    calls > 0 =>
        /\ calls > 1 => analysis_result = previous
        /\ \A seed \in 0..MaxSeed :
               analysis_result = analyze_rca_document(content, TicketKey, fault, seed)

(***************************************************************************)
(* Properties of the entry points of the four analyzers                    *)
(***************************************************************************)

\* C10: no entry point lets the exception of an internal step reach the caller; an
\* exception that reaches the handler of the entry point gives the fallback object
\* of the analyzer.  In analyze_rca_document that is the exception of
\* _assess_content_quality, of _validate_analysis_result, and of the last step of
\* the extraction chain, for a content of 100 characters and more (a shorter one
\* returns before the extraction); the exception of an earlier step of the chain
\* is handled by the next step and reaches no one.
C10_FallbackOnInternalFailure ==
    /\ WasCalled(analysis_result) =>
           /\ ~IsRaised(analysis_result)
           /\ (\/ fault = "_assess_content_quality"
               \/ /\ fault \in {"_fallback_pattern_extraction", "_validate_analysis_result"}
                  /\ Len(content) >= 100)
              => /\ analysis_result.incident_summary = "Analysis failed"
                 /\ Len(analysis_result.root_causes) = 1
    /\ (WasCalled(quality_assessment) /\ fault \in QualitySteps) =>
           /\ quality_assessment.total_score = 0
           /\ quality_assessment.grade = "F"
           /\ quality_assessment.assessment_confidence = "Low"
    /\ (WasCalled(business_impact) /\ fault \in BusinessSteps) =>
           /\ business_impact.impact_score = 1
           /\ business_impact.customer_count_affected = "Analysis failed"
           /\ business_impact.revenue_impact_est = "Unable to estimate"
           /\ business_impact.service_downtime_minutes = 0
    /\ (WasCalled(technical_analysis) /\ fault \in TechnicalSteps) =>
           /\ technical_analysis.root_cause_category = "Unknown/Not Classified"
           /\ technical_analysis.detection_time_minutes = 0
           /\ technical_analysis.resolution_time_minutes = 0
           /\ technical_analysis.technical_debt_level = "None - Well-architected solution"
           /\ technical_analysis.automation_score = 0

\* C10 witness: _validate_analysis_result raised on a document long enough to be
\* analyzed, and analyze_rca_document returned its fallback object with the one
\* root cause "Analysis error"
C10_Witness ==
    /\ fault = "_validate_analysis_result" /\ Len(content) >= 100
    /\ WasCalled(analysis_result)
    /\ analysis_result.incident_summary = "Analysis failed"
    /\ analysis_result.root_causes = <<"Analysis error">>

(***************************************************************************)
(* Properties of analyze_rca_content                                       *)
(***************************************************************************)

\* the incident i of the list was given a page of 50 characters and more
Analyzed(i) ==
    /\ ~NoDocument(incidents[i].rca_link)
    /\ trace[i].page # None
    /\ Len(Strip(trace[i].page)) >= 50

\* the fields of incident that fields holds have the values fields gives them
Holds(incident, fields) == \A f \in DOMAIN fields : incident[f] = fields[f]

\* C7: for an incident whose document has 50 cleaned characters and more, when one
\* of the four analyzer calls raises, the other three are called and their fields
\* hold their results.
C7_OtherAnalyzersStillCalled ==
    \A i \in 1..idx :
        (Analyzed(i) /\ Cardinality(trace[i].raising) = 1) =>
            LET page == trace[i].page
                incident == incidents[i]
                raises(call) == call \in trace[i].raising
            IN /\ trace[i].called = Analyzers
               /\ raises("analyze_rca_document")
                  \/ Holds(incident, NarrativeFields(analyze_rca_document(
                               page, incident.ticket_key, "none", hash_seed)))
               /\ raises("analyze_rca_quality")
                  \/ Holds(incident, QualityFields(analyze_rca_quality(
                               page, incident.ticket_key, "none")))
               /\ raises("analyze_business_impact")
                  \/ Holds(incident, BusinessFields(analyze_business_impact(
                               page, incident.incident_urgency, incident.summary, "none")))
               /\ raises("analyze_technical_aspects")
                  \/ Holds(incident, TechnicalFields(analyze_technical_aspects(page, "none")))

\* the analysis fields that hold a text, and those that hold a number
TextFields ==
    {"rca_summary", "users_impacted", "root_causes", "rca_grade",
     "customer_count_affected", "revenue_impact_est", "severity_justification",
     "root_cause_category", "technical_debt_level"}
NumberFields ==
    {"rca_quality_score", "business_impact_score", "service_downtime_minutes",
     "detection_time_minutes", "resolution_time_minutes", "automation_score"}

\* C8: every incident the loop has gone through, so every incident of the list when
\* analyze_rca_content returns, carries each analysis field with a value: a text
\* that is not None, or a number.
C8_EveryFieldPresent ==
    \A i \in 1..idx :
        /\ \A f \in TextFields : f \in DOMAIN incidents[i] /\ incidents[i][f] # None
        /\ \A f \in NumberFields : f \in DOMAIN incidents[i] /\ incidents[i][f] \in Nat

\* C8 witness: analyze_rca_content has returned; for one incident the link resolved
\* to nothing, and for another the three calls in a try block of their own raised
C8_Witness ==
    /\ idx = Len(incidents)
    /\ \E i \in 1..idx : ~NoDocument(incidents[i].rca_link) /\ trace[i].page = None
    /\ \E i \in 1..idx :
           trace[i].raising = {"analyze_rca_quality", "analyze_business_impact",
                               "analyze_technical_aspects"}

\* the incident i had no link, or a link that resolved to nothing, or to fewer than
\* 50 cleaned characters
NotAnalyzed(i) == ~Analyzed(i)

\* the documented defaults of the fields
DocumentedDefaults ==
    [rca_summary |-> "RCA document not available", users_impacted |-> "Not specified",
     root_causes |-> "Not analyzed", rca_quality_score |-> 0, rca_grade |-> "N/A",
     business_impact_score |-> 1, customer_count_affected |-> "Not specified",
     revenue_impact_est |-> "Unable to estimate", service_downtime_minutes |-> 0,
     root_cause_category |-> "Unknown", detection_time_minutes |-> 0,
     resolution_time_minutes |-> 0, technical_debt_level |-> "Unknown",
     automation_score |-> 0]

EmptyInputSentinels ==
    /\ WasCalled(analysis_result) =>
           /\ ~IsRaised(analysis_result)
           /\ analysis_result.root_causes = <<"Content insufficient">>
    /\ WasCalled(business_impact) =>
           /\ business_impact.customer_count_affected = "User impact not specified"
           /\ business_impact.service_downtime_minutes = 0
    /\ WasCalled(technical_analysis) =>
           /\ technical_analysis.root_cause_category = "Unknown/Not Classified"
           /\ technical_analysis.detection_time_minutes = 0
           /\ technical_analysis.resolution_time_minutes = 0
    /\ WasCalled(quality_assessment) => ~IsRaised(quality_assessment)

\* C11 (as stated): on an empty document string, when no internal step fails, each
\* analyzer returns its empty-input sentinels: one placeholder root cause, the
\* customer impact "User impact not specified" with downtime 0, and the category
\* Unknown/Not Classified with detection and resolution time 0
C11_EmptyDocumentSentinels == (content = "" /\ fault = "none") => EmptyInputSentinels

\* C11 (amended): the same for an empty document string and an empty incident
\* summary; the customer impact is searched in the document and the summary together
C11_EmptyInputSentinels ==
    (content = "" /\ summary = "" /\ fault = "none") => EmptyInputSentinels

\* C11 witness: the business and the narrative analyzer were called on an empty
\* document with an empty summary and returned their sentinels
C11_Witness ==
    /\ content = "" /\ summary = "" /\ fault = "none"
    /\ WasCalled(business_impact) /\ WasCalled(analysis_result)
    /\ business_impact.customer_count_affected = "User impact not specified"
    /\ business_impact.service_downtime_minutes = 0
    /\ analysis_result.root_causes = <<"Content insufficient">>

(***************************************************************************)
(* Properties of analyze_rca_quality on particular documents               *)
(***************************************************************************)

\* C12: for the very short text "N/A", when no internal step fails,
\* analyze_rca_quality returns the degraded assessment (total score 0, grade F,
\* confidence Low, the one dimension "Analysis Failed") and not an assessment
\* computed by the seven dimension assessors
C12_TooShortIsDegraded ==
    (content = "N/A" /\ fault = "none" /\ WasCalled(quality_assessment)) =>
        /\ quality_assessment.total_score = 0
        /\ quality_assessment.grade = "F"
        /\ quality_assessment.assessment_confidence = "Low"
        /\ Len(quality_assessment.dimensions) = 1

\* the score of the dimension called name in an assessment
DimensionScore(assessment, name) ==
    SumSeq([k \in 1..Len(assessment.dimensions) |->
               IF assessment.dimensions[k].name = name
               THEN assessment.dimensions[k].score ELSE 0] \o <<>>)

\* c has an executive summary, a root-cause section, a "5 Whys" block with at least
\* three occurrences of "why", action items with a deadline and an owner, and
\* mentions the five standard sections
IsScenarioReport(c) ==
    /\ In("executive summary", Lower(c)) /\ In("root cause", Lower(c))
    /\ In("5 whys", Lower(c)) /\ Count(Lower(c), "why") >= 3
    /\ In("action items", Lower(c)) /\ In("by 2024-01-01", Lower(c))
    /\ In("owner:", Lower(c))
    /\ \A k \in 1..Len(standard_sections) : In(standard_sections[k], Lower(c))

\* C13: every document with an executive summary, a root-cause section, a "5 Whys"
\* block, action items with deadline and owner, and all five standard sections
\* scores at least 17 in the Root Cause Analysis dimension and at least 70 in total
C13_ScenarioScores ==
    (IsScenarioReport(content) /\ fault = "none" /\ WasCalled(quality_assessment)) =>
        /\ DimensionScore(quality_assessment, "Root Cause Analysis") >= 17
        /\ quality_assessment.total_score >= 70

(***************************************************************************)
(* Properties of the technical classification on the two-phrase texts      *)
(***************************************************************************)

\* the texts made of the phrases "database connection timeout" and
\* "configuration error" only
TwoPhraseTexts == DocsOf({"database connection timeout", "configuration error"}) \ {""}

\* the hand count: "database" is the one Infrastructure keyword of the phrases,
\* "config" and "configuration error" are the Configuration keywords
HandCountInfrastructure(c) == Min(Count(Lower(c), "database"), 3)
HandCountConfiguration(c) ==
    Min(Count(Lower(c), "config"), 3) + Min(Count(Lower(c), "configuration error"), 3)

\* C14: for a text made of the phrases "database connection timeout" and
\* "configuration error" the category is Infrastructure Failure or Configuration
\* Error, and it is the one of the two with the higher hand-counted total
C14_TwoPhraseClassification ==
    (content \in TwoPhraseTexts /\ fault = "none" /\ WasCalled(technical_analysis)) =>
        /\ technical_analysis.root_cause_category
               \in {"Infrastructure Failure", "Configuration Error"}
        /\ HandCountInfrastructure(content) > HandCountConfiguration(content)
               => technical_analysis.root_cause_category = "Infrastructure Failure"
        /\ HandCountConfiguration(content) > HandCountInfrastructure(content)
               => technical_analysis.root_cause_category = "Configuration Error"

\* C14 witness: a text with both phrases was classified as Configuration Error,
\* whose hand count 2 exceeds the 1 of Infrastructure Failure
C14_Witness ==
    /\ content = "database connection timeout configuration error" /\ fault = "none"
    /\ WasCalled(technical_analysis)
    /\ HandCountConfiguration(content) = 2 /\ HandCountInfrastructure(content) = 1
    /\ technical_analysis.root_cause_category = "Configuration Error"

(***************************************************************************)
(* Properties of the records of analyze_rca_content                        *)
(***************************************************************************)

\* the eight category names of RootCauseCategory and the two Unknown sentinels
EnumeratedCategories ==
    {"Code Bug", "Configuration Error", "Infrastructure Failure", "Deployment Issue",
     "External Dependency", "Capacity/Performance", "Process/Human Error",
     "Monitoring/Alerting Gap", "Unknown", "Unknown/Not Classified"}

\* C15: in every record analyze_rca_content has produced, root_cause_category is one
\* of the eight category names or an Unknown sentinel, also when the call of the
\* technical analyzer raised
C15_CategoryIsEnumerated ==
    \A i \in 1..idx : incidents[i].root_cause_category \in EnumeratedCategories

(***************************************************************************)
(* Properties of main                                                      *)
(***************************************************************************)

CombinedText == Lower(content \o " " \o summary)

\* one of the numeric-with-unit patterns matches the combined text: a count of
\* users, members or customers, a percentage of users, a count of accounts or profiles
NumericWithUnit ==
    \/ SearchCountUnit(CombinedText, <<"user", "member", "customer">>).found
    \/ SearchPercentOf(CombinedText).found
    \/ SearchCountUnit(CombinedText, <<"account", "profile">>).found

\* C17: a text that matches both a numeric-with-unit pattern and the all/entire-base
\* phrase yields the numeric phrase, every numeric pattern being tried before the
\* phrase
C17_NumericBeforeAllBase ==
    (/\ fault = "none" /\ WasCalled(business_impact)
     /\ NumericWithUnit /\ SearchAllBase(CombinedText).found) =>
        business_impact.customer_count_affected # "All users affected"

\* the positions of the document where a time pattern matches
CompoundAt == {i \in 1..Len(content) : HourMinMatches(Lower(content), i)}
HoursAt == {i \in 1..Len(content) : DecimalHoursMatches(Lower(content), i)}
MinutesAt == {i \in 1..Len(content) : NumberUnitMatches(Lower(content), i, "min")}
SecondsAt == {i \in 1..Len(content) : NumberUnitMatches(Lower(content), i, "second")}
Leftmost(S) == CHOOSE i \in S : \A j \in S : i <= j

\* the downtime the priority order gives: the leftmost match of the first of compound
\* hours+minutes, hours, minutes, seconds that matches, then the first duration phrase
DowntimeByPriority ==
    IF CompoundAt # {} THEN HourMinValue(Lower(content), Leftmost(CompoundAt))
    ELSE IF HoursAt # {} THEN DecimalHoursValue(Lower(content), Leftmost(HoursAt))
    ELSE IF MinutesAt # {} THEN NumberValue(Lower(content), Leftmost(MinutesAt))
    ELSE IF SecondsAt # {}
         THEN Max(1, NumberValue(Lower(content), Leftmost(SecondsAt)) \div 60)
    ELSE IF SearchDuration(Lower(content), "lasted", "for", FALSE) >= 0
         THEN SearchDuration(Lower(content), "lasted", "for", FALSE)
    ELSE IF SearchDuration(Lower(content), "down", "for", TRUE) >= 0
         THEN SearchDuration(Lower(content), "down", "for", TRUE)
    ELSE IF SearchDuration(Lower(content), "outage", "of", FALSE) >= 0
         THEN SearchDuration(Lower(content), "outage", "of", FALSE)
    ELSE 0

\* C18: the downtime is the value of the highest-priority pattern that matches anywhere
\* in the text (compound hours+minutes, hours, minutes, seconds floored to minutes with
\* minimum 1, then the duration phrases); it is never a sum of several matches, it is a
\* non-negative integer, and it is 0 when nothing matches
C18_DowntimeByPriority ==
    (fault = "none" /\ WasCalled(business_impact)) =>
        /\ business_impact.service_downtime_minutes \in Nat
        /\ business_impact.service_downtime_minutes = DowntimeByPriority
        /\ (CompoundAt \cup HoursAt \cup MinutesAt \cup SecondsAt = {}) =>
               business_impact.service_downtime_minutes = 0

\* an hours match and a minutes match in one document: the hours win, nothing is added
C18_Witness ==
    /\ fault = "none" /\ WasCalled(business_impact)
    /\ CompoundAt = {} /\ HoursAt # {} /\ MinutesAt # {}
    /\ business_impact.service_downtime_minutes = 90

(***************************************************************************)
(* Properties of the quality dimensions                                    *)
(***************************************************************************)

\* the points of the timestamp tiers for the document
TimestampPoints ==
    IF CountAll(timestamp_patterns, content) >= 5 THEN 6
    ELSE IF CountAll(timestamp_patterns, content) >= 2 THEN 3 ELSE 0
TimelinePoints == IF In("timeline", Lower(content)) THEN 4 ELSE 0
DetectionPoints ==
    IF AnyIn(<<"alert", "monitor", "detect", "notice", "discover", "pingdom", "datadog",
               "alarm">>, Lower(content)) THEN 3 ELSE 0
ResponsePoints ==
    IF AnyIn(<<"time to", "response time", "detection time", "resolution time">>,
             Lower(content)) THEN 2 ELSE 0
TimelineDetectionScore == DimensionScore(quality_assessment, "Timeline Detection")

\* C19 as stated: the Timeline & Detection score is the sum, capped at 15, of four
\* checks awarded independently of each other: timeline section +4, timestamps +6 / +3,
\* detection keyword +3, response-time phrasing +2
C19_FourIndependentChecks ==
    (fault = "none" /\ WasCalled(quality_assessment)) =>
        TimelineDetectionScore
            = Min(TimelinePoints + TimestampPoints + DetectionPoints + ResponsePoints, 15)

\* C19 amended: the timestamp points are awarded only when the timeline section is
\* present; the timeline, detection and response checks are independent of each other
C19_TimestampsWithinTimeline ==
    (fault = "none" /\ WasCalled(quality_assessment)) =>
        TimelineDetectionScore
            = Min((IF TimelinePoints = 4 THEN 4 + TimestampPoints ELSE 0)
                  + DetectionPoints + ResponsePoints, 15)

\* a document with two timestamps and no timeline section: the timestamps earn nothing
C19_Witness ==
    /\ fault = "none" /\ WasCalled(quality_assessment)
    /\ TimelinePoints = 0 /\ TimestampPoints = 3
    /\ TimelineDetectionScore = DetectionPoints + ResponsePoints

\* the feedback of the Root Cause Analysis dimension of the assessment
RootCauseFeedback ==
    Join("", [k \in 1..Len(quality_assessment.dimensions) |->
                 IF quality_assessment.dimensions[k].name = "Root Cause Analysis"
                 THEN quality_assessment.dimensions[k].feedback ELSE ""] \o <<>>)

\* the methodology bonus the assessment reports
MethodologyBonus ==
    IF In("Structured methodology (5 Whys) used", RootCauseFeedback) THEN 8
    ELSE IF In("Some structured approach attempted", RootCauseFeedback) THEN 4
    ELSE 0

\* C20: in a document with a root-cause section the methodology bonus is +8 exactly
\* when "5 whys" occurs or "why" occurs at least 3 times; otherwise +4 exactly when one
\* of "fishbone", "fault tree", "contributing factor" occurs; otherwise 0
C20_MethodologyBonus ==
    (/\ fault = "none" /\ WasCalled(quality_assessment)
     /\ In("Root cause analysis section present", RootCauseFeedback)) =>
        MethodologyBonus
            = (IF In("5 whys", Lower(content)) \/ Count(Lower(content), "why") >= 3 THEN 8
               ELSE IF AnyIn(<<"fishbone", "fault tree", "contributing factor">>,
                             Lower(content)) THEN 4
               ELSE 0)

\* the recommendations of the assessment that name the dimension of the lowest ratio
TargetedRecommendations ==
    {k \in 1..Len(quality_assessment.improvement_recommendations) :
        StartsAt(quality_assessment.improvement_recommendations[k], 1,
                 "Priority improvement area: "
                     \o LowestScoring(quality_assessment.dimensions).name \o " - ")}

\* the lowest dimension of the assessment scores less than 70% of its maximum
LowestBelowSeventy ==
    10 * LowestScoring(quality_assessment.dimensions).score
        < 7 * LowestScoring(quality_assessment.dimensions).max_points

\* C21 as stated: every assessment of the normal path has at most 5 recommendations,
\* one of which is the targeted recommendation naming the dimension of the lowest
\* score/max_points ratio
C21_AlwaysTargeted ==
    (fault = "none" /\ WasCalled(quality_assessment)) =>
        /\ Len(quality_assessment.improvement_recommendations) <= 5
        /\ Cardinality(TargetedRecommendations) = 1

\* C21 amended: at most 5 recommendations; the targeted recommendation is present, once
\* and last, exactly when the lowest dimension scores less than 70% of its maximum
C21_TargetedBelowSeventy ==
    (fault = "none" /\ WasCalled(quality_assessment)) =>
        /\ Len(quality_assessment.improvement_recommendations) <= 5
        /\ IF LowestBelowSeventy
           THEN TargetedRecommendations = {Len(quality_assessment.improvement_recommendations)}
           ELSE TargetedRecommendations = {}

\* an assessment whose lowest dimension reaches 70%: no targeted recommendation
C21_Witness ==
    /\ fault = "none" /\ WasCalled(quality_assessment)
    /\ ~LowestBelowSeventy
    /\ TargetedRecommendations = {}

(***************************************************************************)
(* Properties of the narrative extraction                                  *)
(***************************************************************************)

\* the faults under which the extraction chain delivers a root-cause list: none (the
\* primary path, _llm_extract_root_causes), a failure of the sequential analysis
\* (_intelligent_cause_extraction), a failure of the intelligent extraction as well
\* (_extract_root_causes)
ExtractionFaults ==
    {"none", "_analyze_with_sequential_thinking", "_intelligent_summary_extraction"}

\* no two entries of q are equal ignoring case
NoTwoEqualIgnoringCase(q) ==
    \A i, j \in 1..Len(q) : Lower(q[i]) = Lower(q[j]) => i = j

\* C22: on the primary path and on each fallback path of the extraction chain the
\* root-cause list has between 1 and 5 entries and no two entries equal ignoring case
C22_RootCauseList ==
    (WasCalled(analysis_result) /\ fault \in ExtractionFaults) =>
        /\ Len(analysis_result.root_causes) \in 1..5
        /\ NoTwoEqualIgnoringCase(analysis_result.root_causes)

(***************************************************************************)
(* Properties of the technical analysis                                    *)
(***************************************************************************)

\* the values of RootCauseCategory and of TechnicalDebtLevel
RootCauseCategories ==
    {"Code Bug", "Configuration Error", "Infrastructure Failure", "Deployment Issue",
     "External Dependency", "Capacity/Performance", "Process/Human Error",
     "Monitoring/Alerting Gap", UNKNOWN}
TechnicalDebtLevels == {DebtHigh, DebtMedium, DebtLow, DebtNone}

\* C23: every TechnicalAnalysis returned, the fallback included, has automation_score
\* in 0..5, detection and resolution minutes that are not negative, one of the four
\* debt levels and one of the eight categories or Unknown/Not Classified
C23_TechnicalRanges ==
    WasCalled(technical_analysis) =>
        /\ technical_analysis.automation_score \in 0..5
        /\ technical_analysis.detection_time_minutes \in Nat
        /\ technical_analysis.resolution_time_minutes \in Nat
        /\ technical_analysis.technical_debt_level \in TechnicalDebtLevels
        /\ technical_analysis.root_cause_category \in RootCauseCategories

\* detection and resolution time are extracted independently: a detection time with no
\* resolution time, in an analysis whose automation score reached the cap
C23_Witness ==
    /\ WasCalled(technical_analysis) /\ fault = "none"
    /\ technical_analysis.detection_time_minutes > 0
    /\ technical_analysis.resolution_time_minutes = 0
    /\ technical_analysis.automation_score = 5

\* a resolution time with no detection time
ResolutionWithoutDetection ==
    /\ WasCalled(technical_analysis) /\ fault = "none"
    /\ technical_analysis.detection_time_minutes = 0
    /\ technical_analysis.resolution_time_minutes > 0

(***************************************************************************)
(* Properties of get_incidents_since_date                                  *)
(***************************************************************************)

\* every issue that matches the query, once and in server order
EveryIssueOnce == [k \in 1..server.total |-> _extract_incident_data(Issue(k))] \o <<>>

\* C24: for a server of a fixed total that answers (start, limit) with the page at
\* offset start of at most limit issues, pages shorter than the limit of 50 included,
\* get_incidents_since_date returns every matching issue exactly once, in server order
C24_EveryIssueOnce ==
    pc = "returned" => incidents = EveryIssueOnce

(***************************************************************************)
(* Properties of the loop of analyze_rca_content                           *)
(***************************************************************************)

\* how many of the first n incidents were skipped: no link, or the link 'Not Found'
Skipped(n) == Cardinality({k \in 1..n : NoDocument(incidents[k].rca_link)})

\* C25: each incident ends in exactly one of skipped, failed, analyzed: after every
\* iteration analyzed_count + failed_count + the skipped incidents is the number of
\* incidents gone through, so at the end of the loop it is the number of incidents
C25_OneOutcomeEach ==
    pc = "analyze" =>
        /\ analyzed_count \in 0..idx /\ failed_count \in 0..idx
        /\ analyzed_count + failed_count + Skipped(idx) = idx
        /\ Len(trace) = idx

\* the loop has ended on two incidents, one skipped and one failed
C25_Witness ==
    /\ pc = "analyze" /\ idx = Len(incidents) /\ idx = 2
    /\ Skipped(idx) = 1 /\ failed_count = 1 /\ analyzed_count = 0

(***************************************************************************)
(* Relations between the fields of a business impact                       *)
(***************************************************************************)

HighRevenue == "High: $50K+ potential revenue impact"

\* C26: a result with the revenue bucket "High: $50K+ potential revenue impact" has
\* impact_score >= 7 and a justification that begins with "Significant business
\* impact" or "Critical business impact"
C26_HighRevenueHighScore ==
    (WasCalled(business_impact) /\ business_impact.revenue_impact_est = HighRevenue) =>
        /\ business_impact.impact_score >= 7
        /\ \/ StartsAt(business_impact.severity_justification, 1,
                       "Significant business impact")
           \/ StartsAt(business_impact.severity_justification, 1,
                       "Critical business impact")

\* the high bucket with the lowest score it can come with
C26_Witness ==
    /\ WasCalled(business_impact) /\ business_impact.revenue_impact_est = HighRevenue
    /\ business_impact.impact_score = 7
    /\ StartsAt(business_impact.severity_justification, 1, "Significant business impact")

\* C27: the justification agrees with the customer sub-score of the impact score, for
\* every customer-impact phrase: "Complete service disruption" appears exactly when
\* the sub-score is 3 and "Large user base affected" exactly when it is 2
C27_JustificationAgreesWithScore ==
    (fault = "none" /\ WasCalled(business_impact)) =>
        /\ In("Complete service disruption", business_impact.severity_justification)
               <=> CustomerScore(business_impact.customer_count_affected) = 3
        /\ In("Large user base affected", business_impact.severity_justification)
               <=> CustomerScore(business_impact.customer_count_affected) = 2

\* a percentage of the user base: sub-score 2 and "Large user base affected"
C27_Witness ==
    /\ fault = "none" /\ WasCalled(business_impact)
    /\ business_impact.customer_count_affected = "15% of user base"
    /\ CustomerScore(business_impact.customer_count_affected) = 2
    /\ In("Large user base affected", business_impact.severity_justification)

\* the customer-impact phrases the states of the specification show
OnlyKnownPhrases ==
    (fault = "none" /\ WasCalled(business_impact)) =>
        business_impact.customer_count_affected \in
            {"1,200 users", "500 users", "15% of user base", "All users affected",
             "Multiple users affected (unquantified)", "Limited users affected",
             "User impact not specified"}

\* the customer phrase is "<N> users"
QuantifiedUsers(customer_count) ==
    /\ IsDigit(Ch(customer_count, 1))
    /\ Len(customer_count) > 6
    /\ StartsAt(customer_count, Len(customer_count) - 5, " users")

\* C28: a document whose customer phrase is "<N> users" gets an impact_score at least
\* as high as a document of the same priority, downtime and revenue keywords whose
\* phrase is "Multiple users affected (unquantified)"
C28_QuantifiedNotLower ==
    (/\ fault = "none" /\ WasCalled(business_impact)
     /\ QuantifiedUsers(business_impact.customer_count_affected)) =>
        business_impact.impact_score
            >= _calculate_impact_score(priority, "Multiple users affected (unquantified)",
                                       business_impact.service_downtime_minutes,
                                       content, summary)

\* C29: every priority outside P1, P2, P3 is treated as P4: for the same content and
\* summary the result equals, field by field, the result for "P4"
C29_UnknownPriorityAsP4 ==
    (WasCalled(business_impact) /\ priority \notin {"P1", "P2", "P3"}) =>
        business_impact = analyze_business_impact(content, "P4", summary, fault)

\* lower-case "p1" on a document that has the high revenue bucket at P1
C29_Witness ==
    /\ WasCalled(business_impact) /\ fault = "none" /\ priority = "p1"
    /\ content = "payment outage lasted 45 minutes"
    /\ business_impact.revenue_impact_est = "Minimal: <$500 potential impact"
    /\ business_impact.impact_score = 4
    /\ analyze_business_impact(content, "P1", summary, fault).revenue_impact_est = HighRevenue

\* C30: on every return path of analyze_rca_document (content too short, successful
\* extraction, exception fallback) raw_content_length is the length of the content
\* that was passed in
C30_RawContentLength ==
    WasCalled(analysis_result) => analysis_result.raw_content_length = Len(content)

====
